---------------------------- MODULE Spec2Model ----------------------------
(***************************************************************************)
(* Model of the EPUB container-to-document pipeline of Stellaron           *)
(* (src-tauri/src/handlers/epub_handler.rs): the path resolver, the        *)
(* content assembler, the metadata extractor, the cover streamer and the   *)
(* font extractor; and of the commands and services that import books      *)
(* into the store (commands/book_commands.rs, services/book_service.rs).   *)
(*                                                                         *)
(* Text (paths, references, markup attribute values) is a sequence of      *)
(* tokens.  The tokens "/", "\\" and "." are the one-character strings;    *)
(* every other token is an opaque run of characters that holds no          *)
(* separator and is neither "." nor "..".  std::path is modelled as on     *)
(* Unix-like targets ('/' is the only separator, no prefix components).    *)
(***************************************************************************)
EXTENDS Integers, Sequences, FiniteSets, TLC

VARIABLES
    \* ---- resolve_path ----
    base_href,        \* argument base_href
    relative_path,    \* argument relative_path
    resolved,         \* value returned by resolve_path
    re_resolved,      \* value returned by resolving `resolved` once more
    rpc,              \* position: "idle" | "call" | "returned" | "again"
    \* ---- get_epub_content ----
    openable,         \* whether Epub::open succeeds on the file at `path`
    manifest,         \* the container's manifest: a sequence of resources
    spine,            \* the container's spine: a sequence of idrefs
    spine_pos,        \* index of the next spine entry of the for loop
    combined_html,    \* the cumulative output buffer
    processed,        \* history: one record per document appended to the buffer
    result,           \* the Result returned to the caller
    cpc,              \* position: "idle" | "call" | "spine" | "done"
    \* ---- parse_epub_meta, get_cover_image_streamed, get_cover_img ----
    mop,              \* the operation called
    file_data,        \* the file at `path`: whether fs::read succeeds, its bytes
    package,          \* the container: whether it opens, its metadata, its cover
    book_lookup,      \* what repo.get_by_id(id) yields
    checksum,         \* Option: the checksum computed by compute_checksum
    meta_result,      \* the Result returned to the caller
    mpc,              \* position: "idle" | "call" | "blocking" | "done"
    \* ---- extract_fonts_to_disk ----
    font_openable,    \* whether Epub::open succeeds on the file at `path`
    dir_creatable,    \* whether create_dir_all(output_dir) succeeds
    font_manifest,    \* the container's manifest: a sequence of resources
    font_pos,         \* index of the next manifest entry of the for loop
    font_files,       \* the writes fs::write made: [path, id], oldest first
    extracted_fonts,  \* the Vec<String> of written paths
    font_result,      \* the Result returned to the caller
    fpc,              \* position: "idle" | "call" | "loop" | "done"
    \* ---- the book store; import_book, scan_books_directory ----
    books,            \* the rows of the books table, oldest first
    authors,          \* the rows of the authors table, oldest first
    book_authors,     \* the rows of the book_authors table, oldest first
    import,           \* per caller: the command it runs and its position in it
    parsed,           \* history: one record per call of parse_epub_meta
    commands,         \* number of commands started so far
    \* ---- concurrent calls of the extraction operations ----
    calls,            \* per caller: the operation, its argument and its position
    buffers,          \* per caller: the combined_html buffer of its call
    \* ---- the user store; register ----
    users,            \* the rows of the users table, oldest first
    register,         \* per caller: its call of register and its position in it
    registrations     \* number of register calls started so far

rvars == <<base_href, relative_path, resolved, re_resolved, rpc>>
cvars == <<openable, manifest, spine, spine_pos, combined_html, processed, result, cpc>>
mvars == <<mop, file_data, package, book_lookup, checksum, meta_result, mpc>>
fvars == <<font_openable, dir_creatable, font_manifest, font_pos, font_files,
           extracted_fonts, font_result, fpc>>
svars == <<books, authors, book_authors, import, parsed, commands>>
kvars == <<calls, buffers>>
uvars == <<users, register, registrations>>
vars  == <<rvars, cvars, mvars, fvars, svars, kvars, uvars>>

(***************************************************************************)
(* Bounds of the model.                                                    *)
(***************************************************************************)
MaxBaseLen == 3
MaxRelLen  == 4
MaxSpine   == 3
MaxCreators    == 2
MaxPublishers  == 2
MaxIdentifiers == 2
MaxFontResources == 2
MaxCommands  == 2
MaxScanFiles == 2
MaxRegistrations == 3

SEP == "/"
BSL == "\\"
DOT == "."

PathAlphabet == {SEP, BSL, DOT, "a"}

RECURSIVE SeqsUpTo(_, _)
SeqsUpTo(S, n) ==
    IF n = 0 THEN {<<>>}
    ELSE LET shorter == SeqsUpTo(S, n - 1)
         IN  shorter \cup {Append(s, x) : s \in {t \in shorter : Len(t) = n - 1}, x \in S}

(***************************************************************************)
(* std::path::Path on Unix, as far as resolve_path uses it.                *)
(***************************************************************************)
NoComponent == [kind |-> "None",      name |-> <<>>]
RootDir     == [kind |-> "RootDir",   name |-> <<>>]
CurDir      == [kind |-> "CurDir",    name |-> <<>>]
ParentDir   == [kind |-> "ParentDir", name |-> <<>>]
Normal(run) == [kind |-> "Normal",    name |-> run]

HasRoot(s) == Len(s) > 0 /\ s[1] = SEP

IncludeCurDir(s) ==
    /\ ~HasRoot(s)
    /\ Len(s) > 0
    /\ s[1] = DOT
    /\ (Len(s) = 1 \/ s[2] = SEP)

LenBeforeBody(s) == IF HasRoot(s) \/ IncludeCurDir(s) THEN 1 ELSE 0

\* Components::parse_single_component: "" and "." yield nothing
ParseSingle(run) ==
    IF run = <<>> \/ run = <<DOT>> THEN NoComponent
    ELSE IF run = <<DOT, DOT>> THEN ParentDir
    ELSE Normal(run)

\* the runs between separators, left to right
RECURSIVE SplitSep(_)
FirstSep(s) ==
    CHOOSE k \in 1..Len(s) : s[k] = SEP /\ \A j \in 1..(k - 1) : s[j] # SEP

SplitSep(s) ==
    IF \A i \in 1..Len(s) : s[i] # SEP THEN <<s>>
    ELSE <<SubSeq(s, 1, FirstSep(s) - 1)>> \o SplitSep(SubSeq(s, FirstSep(s) + 1, Len(s)))

RECURSIVE ParseRuns(_)
ParseRuns(runs) ==
    IF runs = <<>> THEN <<>>
    ELSE (IF ParseSingle(Head(runs)) = NoComponent THEN <<>>
          ELSE <<ParseSingle(Head(runs))>>) \o ParseRuns(Tail(runs))

\* the body of a path: what follows the root or the leading "."
BodyOf(s) == SubSeq(s, LenBeforeBody(s) + 1, Len(s))

\* the component that starts the path, if any
FirstComponent(s) ==
    IF HasRoot(s) THEN <<RootDir>> ELSE IF IncludeCurDir(s) THEN <<CurDir>> ELSE <<>>

\* Path::components(), front to back
Components(s) == FirstComponent(s) \o ParseRuns(SplitSep(BodyOf(s)))

\* index of the last separator of a body that holds one
LastSep(body) ==
    CHOOSE k \in 1..Len(body) : body[k] = SEP /\ \A j \in (k + 1)..Len(body) : body[j] # SEP

\* Components::parse_next_component_back: the last run of the body and the
\* number of tokens it takes with its separator
BackComponentOf(body) ==
    IF \A i \in 1..Len(body) : body[i] # SEP
    THEN [comp |-> body, size |-> Len(body)]
    ELSE [comp |-> SubSeq(body, LastSep(body) + 1, Len(body)),
          size |-> Len(body) - LastSep(body) + 1]

BackComponent(s) == BackComponentOf(BodyOf(s))

\* Components::next_back
RECURSIVE NextBack(_)
NextBackParsed(c, rest) ==
    IF c # NoComponent THEN [comp |-> c, rest |-> rest] ELSE NextBack(rest)

NextBackBody(s, b) == NextBackParsed(ParseSingle(b.comp), SubSeq(s, 1, Len(s) - b.size))

NextBack(s) ==
    IF Len(s) > LenBeforeBody(s) THEN NextBackBody(s, BackComponent(s))
    ELSE IF HasRoot(s) THEN [comp |-> RootDir, rest |-> SubSeq(s, 1, Len(s) - 1)]
    ELSE IF IncludeCurDir(s) THEN [comp |-> CurDir, rest |-> SubSeq(s, 1, Len(s) - 1)]
    ELSE [comp |-> NoComponent, rest |-> s]

\* Components::trim_right (as_path): trailing empty and "." runs are dropped
RECURSIVE TrimRight(_)
TrimRightBody(s, b) ==
    IF ParseSingle(b.comp) # NoComponent THEN s
    ELSE TrimRight(SubSeq(s, 1, Len(s) - b.size))

TrimRight(s) ==
    IF Len(s) <= LenBeforeBody(s) THEN s ELSE TrimRightBody(s, BackComponent(s))

\* Path::parent(): an Option
ParentOf(nb) ==
    IF nb.comp.kind \in {"Normal", "CurDir", "ParentDir"}
    THEN [some |-> TRUE, path |-> TrimRight(nb.rest)]
    ELSE [some |-> FALSE, path |-> <<>>]

Parent(s) == ParentOf(NextBack(s))

\* Path::join / PathBuf::push: an absolute argument replaces the buffer
Join(p, rel) ==
    IF HasRoot(rel) THEN rel
    ELSE IF Len(p) > 0 /\ p[Len(p)] # SEP THEN p \o <<SEP>> \o rel
    ELSE p \o rel

\* str::replace('\\', "/")
ReplaceBackslash(s) == [i \in 1..Len(s) |-> IF s[i] = BSL THEN SEP ELSE s[i]]

(***************************************************************************)
(* resolve_path                                                            *)
(***************************************************************************)
\* one iteration of the loop over joined.components()
NormalizeStep(acc, c) ==
    IF c.kind = "Normal" THEN Append(acc, c.name)
    ELSE IF c.kind = "ParentDir"
         THEN (IF acc = <<>> THEN acc ELSE SubSeq(acc, 1, Len(acc) - 1))
    ELSE acc

\* the loop over joined.components(): the accumulator after the components
RECURSIVE NormalizeLoop(_, _)
NormalizeLoop(comps, acc) ==
    IF comps = <<>> THEN acc
    ELSE NormalizeLoop(Tail(comps), NormalizeStep(acc, Head(comps)))

\* the loop pushing the kept components onto the result PathBuf
RECURSIVE PushAll(_, _)
PushAll(buf, names) ==
    IF names = <<>> THEN buf ELSE PushAll(Join(buf, Head(names)), Tail(names))

\* the Some(parent) branch, from the components of the joined path
NormalizeComponents(comps) ==
    PushAll(IF \E i \in 1..Len(comps) : comps[i].kind = "RootDir" THEN <<SEP>> ELSE <<>>,
            NormalizeLoop(comps, <<>>))

ResolveAgainst(parent, rel) ==
    IF parent.some THEN NormalizeComponents(Components(Join(parent.path, rel)))
    ELSE rel

resolve_path(base, rel) == ReplaceBackslash(ResolveAgainst(Parent(base), rel))

(***************************************************************************)
(* base64::engine::general_purpose::STANDARD.encode                        *)
(***************************************************************************)
Base64Chars ==
    << "A", "B", "C", "D", "E", "F", "G", "H", "I", "J", "K", "L", "M",
       "N", "O", "P", "Q", "R", "S", "T", "U", "V", "W", "X", "Y", "Z",
       "a", "b", "c", "d", "e", "f", "g", "h", "i", "j", "k", "l", "m",
       "n", "o", "p", "q", "r", "s", "t", "u", "v", "w", "x", "y", "z",
       "0", "1", "2", "3", "4", "5", "6", "7", "8", "9", "+", "/" >>

Sextet(n) == Base64Chars[n + 1]

RECURSIVE Base64Encode(_)
Base64Encode(bytes) ==
    IF Len(bytes) = 0 THEN <<>>
    ELSE IF Len(bytes) = 1
    THEN << Sextet(bytes[1] \div 4), Sextet((bytes[1] % 4) * 16), "=", "=" >>
    ELSE IF Len(bytes) = 2
    THEN << Sextet(bytes[1] \div 4),
            Sextet((bytes[1] % 4) * 16 + bytes[2] \div 16),
            Sextet((bytes[2] % 16) * 4), "=" >>
    ELSE << Sextet(bytes[1] \div 4),
            Sextet((bytes[1] % 4) * 16 + bytes[2] \div 16),
            Sextet((bytes[2] % 16) * 4 + bytes[3] \div 64),
            Sextet(bytes[3] % 64) >>
         \o Base64Encode(SubSeq(bytes, 4, Len(bytes)))

(***************************************************************************)
(* The container (rbook::Epub) as far as get_epub_content uses it.         *)
(* A resource: id, href, declared media type, whether its bytes / text can *)
(* be read, its bytes, and (for a document) its markup.                    *)
(* Markup is a sequence of nodes; an element node stands for the text      *)
(*   <tag ... attr=QUOTE url QUOTE ...>                                    *)
(* and `region` tells whether the node lies in the head or in the body.    *)
(***************************************************************************)
XHTML == "application/xhtml+xml"

\* the text of a media type, as tokens
MediaTypeTokens(kind) ==
    CASE kind = "image/png"  -> <<"image", SEP, "png">>
      [] kind = "image/jpeg" -> <<"image", SEP, "jpeg">>
      [] kind = "image/gif"  -> <<"image", SEP, "gif">>
      [] kind = "text/css"   -> <<"text", SEP, "css">>
      [] OTHER               -> <<"application", SEP, "xhtml+xml">>

NoResource == [found |-> FALSE, id |-> "", href |-> <<>>, kind |-> "",
               readable |-> FALSE, bytes |-> <<>>, text |-> <<>>]

Found(r) == [found |-> TRUE, id |-> r.id, href |-> r.href, kind |-> r.kind,
             readable |-> r.readable, bytes |-> r.bytes, text |-> r.text]

\* epub.manifest().by_id(idref)
by_id(m, idref) ==
    IF \E i \in 1..Len(m) : m[i].id = idref
    THEN Found(m[CHOOSE i \in 1..Len(m) :
                     m[i].id = idref /\ \A j \in 1..(i - 1) : m[j].id # idref])
    ELSE NoResource

\* epub.manifest().by_href(href)
by_href(m, href) ==
    IF \E i \in 1..Len(m) : m[i].href = href
    THEN Found(m[CHOOSE i \in 1..Len(m) :
                     m[i].href = href /\ \A j \in 1..(i - 1) : m[j].href # href])
    ELSE NoResource

StartsWith(s, tok) == Len(s) > 0 /\ s[1] = tok

\* img_re: (<img[^>]*?src=["'])([^"']+)(["'][^>]*?>)
ImgReMatches(node) == node.tag = "img" /\ node.attr = "src" /\ node.url # <<>>

\* image_re: (<image[^>]*?(?:xlink:)?href=["'])([^"']+)(["'][^>]*?>)
ImageReMatches(node) ==
    node.tag = "image" /\ node.attr \in {"href", "xlink:href"} /\ node.url # <<>>

\* format!("data:{};base64,{}", mime_type, encoded)
DataUrl(image_resource) ==
    <<"data:">> \o MediaTypeTokens(image_resource.kind) \o <<";base64,">>
        \o Base64Encode(image_resource.bytes)

\* mutant of SkipsRewrite: the skip test is missing
NeverSkips(src) == FALSE

\* src.starts_with("data:") || src.starts_with("http")
SkipsRewrite(src) == StartsWith(src, "data:") \/ StartsWith(src, "http")

\* the replacement once the resolved href was looked up in the manifest
InlineOrKeep(node, image_resource) ==
    IF image_resource.found /\ image_resource.readable
    THEN [node EXCEPT !.url = DataUrl(image_resource)]
    ELSE node

\* mutant of RewriteMatch: the fallback writes the resolved path back
RewriteMatchResolvedFallback(node, current_href, m) ==
    IF StartsWith(node.url, "data:") \/ StartsWith(node.url, "http") THEN node
    ELSE IF InlineOrKeep(node, by_href(m, resolve_path(current_href, node.url))) # node
    THEN InlineOrKeep(node, by_href(m, resolve_path(current_href, node.url)))
    ELSE [node EXCEPT !.url = resolve_path(current_href, node.url)]

\* the closure given to replace_all, for one match
RewriteMatch(node, current_href, m) ==
    IF SkipsRewrite(node.url) THEN node
    ELSE InlineOrKeep(node, by_href(m, resolve_path(current_href, node.url)))

\* 1. Process <img> tags
ImgPass(content, current_href, m) ==
    [i \in 1..Len(content) |->
        IF ImgReMatches(content[i]) THEN RewriteMatch(content[i], current_href, m)
        ELSE content[i]]

\* 2. Process <image> tags
ImagePass(content, current_href, m) ==
    [i \in 1..Len(content) |->
        IF ImageReMatches(content[i]) THEN RewriteMatch(content[i], current_href, m)
        ELSE content[i]]

\* Html::parse_document, select("body"), inner_html(): the body region
RECURSIVE BodyInnerHtml(_)
BodyInnerHtml(content) ==
    IF content = <<>> THEN <<>>
    ELSE (IF Head(content).region = "body" THEN <<Head(content)>> ELSE <<>>)
         \o BodyInnerHtml(Tail(content))

(***************************************************************************)
(* The containers the model opens.                                         *)
(***************************************************************************)
Text(region) == [region |-> region, tag |-> "text", attr |-> "", quote |-> "",
                 url |-> <<"words">>]

Elem(tag, attr, quote, url) ==
    [region |-> "body", tag |-> tag, attr |-> attr, quote |-> quote, url |-> url]

RefData     == <<"data:", "x">>
RefHttp     == <<"http", ":", SEP, SEP, "h", SEP, "a.png">>
RefHttps    == <<"http", "s", ":", SEP, SEP, "h", SEP, "a.png">>
RefHttpDocs == <<"http", "docs", SEP, "a.png">>
RefUp       == <<DOT, DOT, SEP, "images", SEP, "a.png">>
RefMissing  == <<"missing.png">>

Refs == {RefData, RefHttp, RefHttps, RefHttpDocs, RefUp, RefMissing}

ElemNodes ==
    {Elem("img", "src", q, u) : q \in {"\"", "'"}, u \in Refs}
    \cup {Elem("image", "href", "\"", u) : u \in Refs}
    \cup {Elem("image", "xlink:href", "'", u) : u \in Refs}
    \cup {Elem("img", "src", "\"", <<>>)}

\* bodies of the document under test
Bodies ==
    {<<n>> : n \in ElemNodes \cup {Text("body")}}
    \cup { <<>>,
           << Elem("img", "src", "\"", RefMissing), Text("body"),
              Elem("img", "src", "'", RefUp) >>,
           << Elem("img", "src", "\"", RefUp),
              Elem("image", "xlink:href", "\"", RefUp) >>,
           << Elem("img", "src", "'", RefData),
              Elem("image", "href", "\"", RefHttp),
              Elem("img", "src", "\"", RefUp) >>,
           << Elem("image", "href", "'", RefMissing),
              Elem("img", "src", "\"", RefData),
              Elem("image", "href", "\"", RefHttpDocs) >> }

Doc(id, href, readable, body) ==
    [id |-> id, href |-> href, kind |-> XHTML, readable |-> readable,
     bytes |-> <<>>, text |-> <<Text("head")>> \o body]

File(id, href, kind, readable, bytes) ==
    [id |-> id, href |-> href, kind |-> kind, readable |-> readable,
     bytes |-> bytes, text |-> <<>>]

\* d1 (in ch/) is the document under test and d2 a document at the root;
\* css is a spine-able resource that is no markup; im is the image the
\* relative references reach; im2 and odd lie where "httpdocs/a.png" and
\* "data:x" resolve from ch/, so that only the skip test keeps those
\* references as written.
ManifestWith(r1, ri, body) ==
    << Doc("d1", <<"ch", SEP, "p1.xhtml">>, r1, body),
       Doc("d2", <<"p2.xhtml">>, TRUE,
           << Elem("image", "xlink:href", "'", <<"images", SEP, "a.png">>),
              Text("body") >>),
       File("css", <<"s.css">>, "text/css", TRUE, <<104>>),
       File("im", <<"images", SEP, "a.png">>, "image/png", ri, <<137, 80, 78, 71>>),
       File("im2", <<"ch", SEP, "http", "docs", SEP, "a.png">>, "image/jpeg", TRUE,
            <<255, 216>>),
       File("odd", <<"ch", SEP, "data:", "x">>, "image/gif", TRUE, <<71>>) >>

Manifests == { ManifestWith(r1, ri, body) : r1 \in BOOLEAN, ri \in BOOLEAN, body \in Bodies }

SpineIds == {"d1", "d2", "css", "ghost"}

(***************************************************************************)
(* get_epub_content                                                        *)
(***************************************************************************)
NoReturn == [returned |-> FALSE, ok |-> FALSE, value |-> <<>>]
Ok(v)    == [returned |-> TRUE,  ok |-> TRUE,  value |-> v]
Err(e)   == [returned |-> TRUE,  ok |-> FALSE, value |-> <<e>>]

InitContent ==
    /\ openable \in BOOLEAN
    /\ manifest \in Manifests
    /\ spine \in SeqsUpTo(SpineIds, MaxSpine)
    /\ spine_pos = 0
    /\ combined_html = <<>>
    /\ processed = <<>>
    /\ result = NoReturn
    /\ cpc = "call"

\* Epub::open(&path_str) succeeds
OpenEpub ==
    /\ cpc = "call"
    /\ openable
    /\ cpc' = "spine"
    /\ spine_pos' = 1
    /\ UNCHANGED <<openable, manifest, spine, combined_html, processed, result>>

\* Epub::open(&path_str).map_err(|e| e.to_string())? returns the error
OpenEpubFails ==
    /\ cpc = "call"
    /\ ~openable
    /\ cpc' = "done"
    /\ result' = Err("open")
    /\ UNCHANGED <<openable, manifest, spine, spine_pos, combined_html, processed>>

\* the history record of a document appended to the buffer
Processed(pos, resource, content_img_processed, content_final) ==
    [pos |-> pos, idref |-> resource.id, href |-> resource.href,
     content |-> resource.text,
     content_img_processed |-> content_img_processed,
     content_final |-> content_final,
     fragment |-> BodyInnerHtml(content_final)]

\* from the first pass on, for a document whose text was read
AppendDocument(resource, content_img_processed) ==
    /\ combined_html' = combined_html
           \o BodyInnerHtml(ImagePass(content_img_processed, resource.href, manifest))
    /\ processed' = Append(processed,
           Processed(spine_pos, resource, content_img_processed,
                     ImagePass(content_img_processed, resource.href, manifest)))

\* mutant of VisitResource: a skipped entry leaves a trace in the buffer
VisitOrMark(resource) ==
    IF resource.found /\ resource.kind = XHTML /\ resource.readable
    THEN AppendDocument(resource, ImgPass(resource.text, resource.href, manifest))
    ELSE /\ combined_html' = combined_html \o <<Text("body")>>
         /\ UNCHANGED processed

\* the body of the loop, for the resource of the spine entry
VisitResource(resource) ==
    IF resource.found /\ resource.kind = XHTML /\ resource.readable
    THEN AppendDocument(resource, ImgPass(resource.text, resource.href, manifest))
    ELSE UNCHANGED <<combined_html, processed>>

\* one iteration of `for item_ref in spine`
SpineItem ==
    /\ cpc = "spine"
    /\ spine_pos <= Len(spine)
    /\ VisitResource(by_id(manifest, spine[spine_pos]))
    /\ spine_pos' = spine_pos + 1
    /\ UNCHANGED <<openable, manifest, spine, result, cpc>>

\* Ok(combined_html)
ReturnContent ==
    /\ cpc = "spine"
    /\ spine_pos > Len(spine)
    /\ result' = Ok(combined_html)
    /\ cpc' = "done"
    /\ UNCHANGED <<openable, manifest, spine, spine_pos, combined_html, processed>>

(***************************************************************************)
(* parse_epub_meta and get_cover_image_streamed.                           *)
(* An Option is a sequence of length 0 (None) or 1 (Some).                 *)
(***************************************************************************)
None    == <<>>
Some(x) == <<x>>

\* Sha256::digest(&data) rendered by format!("{:x}", hash): a digest is
\* named by the bytes it is the digest of (no collision among the files of
\* the model)
Sha256Hex(data) == [sha256 |-> data]

\* mutant of AuthorsOrDefault: the default is pushed whatever the list holds
AuthorsAlwaysDefaulted(creators) == Append(creators, "Unknown Author")

\* if authors.is_empty() { authors.push("Unknown Author") }
AuthorsOrDefault(creators) ==
    IF creators = <<>> THEN Append(creators, "Unknown Author") ELSE creators

\* if publishers.is_empty() { publishers.push("Unknown Publisher") }
PublishersOrDefault(declared) ==
    IF declared = <<>> THEN Append(declared, "Unknown Publisher") ELSE declared

\* metadata.title().map(..).unwrap_or_else(|| "Unknown Title")
TitleOrDefault(title) == IF title = None THEN "Unknown Title" ELSE title[1]

\* mutant of FindIsbn: the first identifier, whatever its scheme
FirstIdentifierAsIsbn(identifiers) ==
    IF identifiers = <<>> THEN None ELSE Some(identifiers[1])

\* metadata.identifiers().find(|i| i.value().starts_with("urn:isbn:"))
FindIsbn(identifiers) ==
    IF \E i \in 1..Len(identifiers) : StartsWith(identifiers[i], "urn:isbn:")
    THEN Some(identifiers[CHOOSE i \in 1..Len(identifiers) :
                  /\ StartsWith(identifiers[i], "urn:isbn:")
                  /\ \A j \in 1..(i - 1) : ~StartsWith(identifiers[j], "urn:isbn:")])
    ELSE None

\* mutant of CoverData: the bytes are taken without looking at the read's outcome
CoverDataUnchecked(cover) ==
    IF cover # None THEN Some(<<cover[1].bytes, cover[1].kind>>) ELSE None

\* book.manifest().cover_image() and read_bytes().ok().map(|bytes| (bytes, mime_type))
CoverData(cover) ==
    IF cover # None
    THEN (IF cover[1].readable THEN Some(<<cover[1].bytes, cover[1].kind>>) ELSE None)
    ELSE None

CreatorNames   == {"Ann", "Bob"}
PublisherNames == {"Acme", "Orbit"}
IdentifierSet  == { <<"urn:isbn:", "1">>, <<"urn:uuid:", "2">>, <<"urn:isbn:", "3">> }

CoverResource(readable) ==
    [id |-> "cover", href |-> <<"images", SEP, "cover.png">>, kind |-> "image/png",
     readable |-> readable, bytes |-> <<137, 80>>, text |-> <<>>]

Covers == {None, Some(CoverResource(TRUE)), Some(CoverResource(FALSE))}

\* the packages parse_epub_meta is called on
Packages ==
    [ openable    : BOOLEAN,
      title       : {None},
      creators    : SeqsUpTo(CreatorNames, MaxCreators),
      publishers  : SeqsUpTo(PublisherNames, MaxPublishers),
      date        : {None},
      identifiers : SeqsUpTo(IdentifierSet, MaxIdentifiers),
      cover       : Covers ]
    \cup
    [ openable    : {TRUE},
      title       : {Some("Dune")},
      creators    : SeqsUpTo(CreatorNames, MaxCreators),
      publishers  : {<<>>, <<"Acme">>},
      date        : {Some("1965")},
      identifiers : {<<>>},
      cover       : Covers ]

\* the packages get_cover_image_streamed is called on
CoverPackages ==
    [ openable    : BOOLEAN,
      title       : {None, Some("Dune")},
      creators    : {<<>>, <<"Ann">>},
      publishers  : {<<>>},
      date        : {None},
      identifiers : {<<>>},
      cover       : Covers ]

EpubPath == "book.epub"

NoPackage == [openable |-> FALSE, title |-> None, creators |-> <<>>,
              publishers |-> <<>>, date |-> None, identifiers |-> <<>>,
              cover |-> None]

NoFile == [readable |-> FALSE, bytes |-> <<>>]

MetaIdle ==
    /\ mop = "idle"
    /\ file_data = NoFile
    /\ package = NoPackage
    /\ book_lookup = "none"
    /\ checksum = None
    /\ meta_result = NoReturn
    /\ mpc = "idle"

InitParseMeta ==
    /\ mop = "parse_epub_meta"
    /\ file_data \in [readable : BOOLEAN, bytes : {<<80, 75>>}]
    /\ package \in Packages
    /\ book_lookup = "none"
    /\ checksum = None
    /\ meta_result = NoReturn
    /\ mpc = "call"

\* repo.get_by_id(id): "error" (Err), "none" (Ok(None)), "no_path" (a book
\* whose file_path is None), "some" (a book with a file path)
InitCover ==
    /\ mop \in {"get_cover_image_streamed", "get_cover_img"}
    /\ file_data = NoFile
    /\ package \in CoverPackages
    /\ book_lookup \in {"error", "none", "no_path", "some"}
    /\ checksum = None
    /\ meta_result = NoReturn
    /\ mpc = "call"

\* let checksum = compute_checksum(&path).await?  (fs::read succeeds)
ComputeChecksum ==
    /\ mop = "parse_epub_meta" /\ mpc = "call"
    /\ file_data.readable
    /\ checksum' = Some(Sha256Hex(file_data.bytes))
    /\ mpc' = "blocking"
    /\ UNCHANGED <<mop, file_data, package, book_lookup, meta_result>>

\* compute_checksum(&path).await?  (fs::read fails: the error is returned)
ComputeChecksumFails ==
    /\ mop = "parse_epub_meta" /\ mpc = "call"
    /\ ~file_data.readable
    /\ meta_result' = Err("io")
    /\ mpc' = "done"
    /\ UNCHANGED <<mop, file_data, package, book_lookup, checksum>>

\* the BookMetadata built from an opened container
BookMetadata(pkg, path, digest) ==
    [ title          |-> TitleOrDefault(pkg.title),
      authors        |-> AuthorsOrDefault(pkg.creators),
      publishers     |-> PublishersOrDefault(pkg.publishers),
      published_date |-> pkg.date,
      isbn           |-> FindIsbn(pkg.identifiers),
      file_path      |-> path,
      cover_data     |-> CoverData(pkg.cover),
      checksum       |-> digest ]

\* the closure run by spawn_blocking
ParseMeta ==
    /\ mop = "parse_epub_meta" /\ mpc = "blocking"
    /\ meta_result' =
         IF ~package.openable THEN Err("open")
         ELSE Ok(BookMetadata(package, EpubPath, checksum[1]))
    /\ mpc' = "done"
    /\ UNCHANGED <<mop, file_data, package, book_lookup, checksum>>

\* the Result of get_cover_image_streamed(id), from what repo.get_by_id(id)
\* yields and the container at the book's file path
CoverImageStreamed(lookup, pkg) ==
    IF lookup = "error" THEN Err("db")
    ELSE IF lookup = "none" THEN Err("Book not found")
    ELSE IF lookup = "no_path" THEN Err("No file path")
    ELSE IF ~pkg.openable THEN Err("open")
    ELSE IF pkg.cover = None THEN Ok(<<>>)
    ELSE IF pkg.cover[1].readable THEN Ok(pkg.cover[1].bytes)
    ELSE Err("read")

\* get_cover_image_streamed(id)
GetCoverImageStreamed ==
    /\ mop = "get_cover_image_streamed" /\ mpc = "call"
    /\ meta_result' = CoverImageStreamed(book_lookup, package)
    /\ mpc' = "done"
    /\ UNCHANGED <<mop, file_data, package, book_lookup, checksum>>

\* match get_cover_image_streamed(..) { Ok(img) => Ok(Some(img)), Err(_) => Ok(None) }
CoverOption(streamed) == IF streamed.ok THEN Ok(Some(streamed.value)) ELSE Ok(None)

\* get_cover_img(book_id): its own repo.get_by_id, then the streamed cover
\* of the book it found (the store is not changed between the two lookups)
GetCoverImg ==
    /\ mop = "get_cover_img" /\ mpc = "call"
    /\ meta_result' =
         IF book_lookup = "error" THEN Err("db")
         ELSE IF book_lookup = "none" THEN Err("Book not found")
         ELSE CoverOption(CoverImageStreamed(book_lookup, package))
    /\ mpc' = "done"
    /\ UNCHANGED <<mop, file_data, package, book_lookup, checksum>>

(***************************************************************************)
(* extract_fonts_to_disk.  A declared media type is a sequence of tokens   *)
(* in which the word "font", where the type holds it, is a token.          *)
(***************************************************************************)
\* mime_type.contains("font")
MimeContains(kind, word) == \E i \in 1..Len(kind) : kind[i] = word

LegacyFontMimes ==
    { <<"application/vnd.ms-opentype">>,
      <<"application/x-", "font", "-ttf">>,
      <<"application/x-", "font", "-otf">>,
      <<"application/", "font", "-woff">>,
      <<"application/", "font", "-woff2">> }

\* the test on the declared media type of a manifest resource
IsFontMime(kind) == MimeContains(kind, "font") \/ kind \in LegacyFontMimes

\* Path::file_name(): the last component when it is a normal one
FileNameOf(nb) == IF nb.comp.kind = "Normal" THEN Some(nb.comp.name) ELSE None

FileName(s) == FileNameOf(NextBack(s))

\* format!("font_{}", resource.id())
GeneratedFontName(id) == <<"font_", id>>

\* file_name().map(..).unwrap_or_else(|| format!("font_{}", resource.id()))
FontFilenameOr(name, id) == IF name # None THEN name[1] ELSE GeneratedFontName(id)

FontFilename(resource) == FontFilenameOr(FileName(resource.href), resource.id)

\* PathBuf::from(&output_dir_str)
FontDir == <<"out">>

\* font_dir.join(&font_filename)
FontPath(resource) == Join(FontDir, FontFilename(resource))

\* a manifest resource: `readable` is whether read_bytes succeeds,
\* `writes` whether fs::write of its bytes succeeds
FontResource(id, href, kind, readable, writes) ==
    [id |-> id, href |-> href, kind |-> kind, readable |-> readable, writes |-> writes]

\* f1 and f2 are fonts whose hrefs end in the same file name, f3 a font
\* whose href has no file name, css a resource that is no font
FontResources ==
    { FontResource("f1", <<"fonts", SEP, "a.ttf">>, <<"font", "/ttf">>, r, w)
        : r \in BOOLEAN, w \in BOOLEAN }
    \cup { FontResource("f2", <<"more", SEP, "a.ttf">>, <<"application/vnd.ms-opentype">>, r, w)
        : r \in BOOLEAN, w \in BOOLEAN }
    \cup { FontResource("f3", <<"fonts", SEP, DOT, DOT>>, <<"application/", "font", "-woff">>, r, w)
        : r \in BOOLEAN, w \in BOOLEAN }
    \cup { FontResource("css", <<"s.css">>, <<"text/css">>, TRUE, TRUE) }

\* manifests: the ids of a manifest are distinct
FontManifests ==
    { m \in SeqsUpTo(FontResources, MaxFontResources) :
        \A i, j \in 1..Len(m) : i # j => m[i].id # m[j].id }

FontsIdle ==
    /\ font_openable = FALSE
    /\ dir_creatable = FALSE
    /\ font_manifest = <<>>
    /\ font_pos = 0
    /\ font_files = <<>>
    /\ extracted_fonts = <<>>
    /\ font_result = NoReturn
    /\ fpc = "idle"

InitFonts ==
    /\ font_openable \in BOOLEAN
    /\ dir_creatable \in BOOLEAN
    /\ font_manifest \in FontManifests
    /\ font_pos = 0
    /\ font_files = <<>>
    /\ extracted_fonts = <<>>
    /\ font_result = NoReturn
    /\ fpc = "call"

\* Epub::open(&path_str).map_err(|e| e.to_string())? returns the error
ExtractOpenFails ==
    /\ fpc = "call"
    /\ ~font_openable
    /\ font_result' = Err("open")
    /\ fpc' = "done"
    /\ UNCHANGED <<font_openable, dir_creatable, font_manifest, font_pos, font_files,
                   extracted_fonts>>

\* std::fs::create_dir_all(&font_dir).map_err(|e| e.to_string())? returns the error
ExtractCreateDirFails ==
    /\ fpc = "call"
    /\ font_openable
    /\ ~dir_creatable
    /\ font_result' = Err("io")
    /\ fpc' = "done"
    /\ UNCHANGED <<font_openable, dir_creatable, font_manifest, font_pos, font_files,
                   extracted_fonts>>

\* the container opened and the directory exists: the loop starts
ExtractOpen ==
    /\ fpc = "call"
    /\ font_openable
    /\ dir_creatable
    /\ fpc' = "loop"
    /\ font_pos' = 1
    /\ UNCHANGED <<font_openable, dir_creatable, font_manifest, font_files,
                   extracted_fonts, font_result>>

\* the body of the loop for one resource: a resource that is no font, or
\* whose bytes cannot be read, or whose write fails, leaves no trace
WriteFont(resource) ==
    IF IsFontMime(resource.kind) /\ resource.readable /\ resource.writes
    THEN /\ font_files' = Append(font_files, [path |-> FontPath(resource), id |-> resource.id])
         /\ extracted_fonts' = Append(extracted_fonts, FontPath(resource))
    ELSE UNCHANGED <<font_files, extracted_fonts>>

\* one iteration of `for resource in &epub.manifest()`
ExtractFont ==
    /\ fpc = "loop"
    /\ font_pos <= Len(font_manifest)
    /\ WriteFont(font_manifest[font_pos])
    /\ font_pos' = font_pos + 1
    /\ UNCHANGED <<font_openable, dir_creatable, font_manifest, font_result, fpc>>

\* Ok(extracted_fonts)
ExtractReturn ==
    /\ fpc = "loop"
    /\ font_pos > Len(font_manifest)
    /\ font_result' = Ok(extracted_fonts)
    /\ fpc' = "done"
    /\ UNCHANGED <<font_openable, dir_creatable, font_manifest, font_pos, font_files,
                   extracted_fonts>>

(***************************************************************************)
(* The book store and the commands that import into it (import_book,       *)
(* scan_books_directory).  The repositories are tables of rows with        *)
(* generated ids; any call of a repository can fail with a database error. *)
(***************************************************************************)
Callers == {"c1", "c2"}

ImportPaths == {"a.epub", "b.epub", "c.epub", "bad.epub"}

PackageOf(creators) ==
    [openable |-> TRUE, title |-> Some("Dune"), creators |-> creators,
     publishers |-> <<>>, date |-> None, identifiers |-> <<>>, cover |-> None]

StoredFile(bytes, pkg) == [readable |-> TRUE, bytes |-> bytes, package |-> pkg]

\* the files on disk: a.epub and b.epub hold the same bytes and declare
\* one creator twice, bad.epub is no container
FileAt(path) ==
    IF path \in {"a.epub", "b.epub"}
    THEN StoredFile(<<80, 75, 1>>, PackageOf(<<"Ann", "Ann">>))
    ELSE IF path = "c.epub"
    THEN StoredFile(<<80, 75, 2>>, PackageOf(<<"Ann", "Bob">>))
    ELSE StoredFile(<<0>>, NoPackage)

\* mutant of compute_checksum: the path is hashed with the bytes
PathSaltedChecksum(path) ==
    IF FileAt(path).readable THEN Ok(Sha256Hex(<<path>> \o FileAt(path).bytes))
    ELSE Err("io")

\* compute_checksum(path): fs::read(path).await?, Sha256::digest, format!("{:x}")
compute_checksum(path) ==
    IF FileAt(path).readable THEN Ok(Sha256Hex(FileAt(path).bytes)) ELSE Err("io")

\* parse_epub_meta(path) once compute_checksum returned
ParsedWith(path, digest) ==
    IF ~digest.ok THEN Err("io")
    ELSE IF ~FileAt(path).package.openable THEN Err("open")
    ELSE Ok(BookMetadata(FileAt(path).package, path, digest.value))

\* parse_epub_meta(path), as a function of the file at `path`
parse_epub_meta(path) == ParsedWith(path, compute_checksum(path))

\* BookRepo::search_by_checksum: the first row with the checksum
SearchByChecksum(rows, digest) ==
    IF \E i \in 1..Len(rows) : rows[i].checksum = Some(digest)
    THEN Some(rows[CHOOSE i \in 1..Len(rows) :
                  /\ rows[i].checksum = Some(digest)
                  /\ \A j \in 1..(i - 1) : rows[j].checksum # Some(digest)])
    ELSE None

\* AuthorRepo::search_by_name(..).unwrap_or_default().into_iter().next():
\* the first row with the name
FirstAuthorNamed(rows, name) ==
    IF \E i \in 1..Len(rows) : rows[i].name = name
    THEN Some(rows[CHOOSE i \in 1..Len(rows) :
                  /\ rows[i].name = name
                  /\ \A j \in 1..(i - 1) : rows[j].name # name])
    ELSE None

\* the row BookRepo::add stores for a NewBook
NewBook(rows, metadata) ==
    [book_id |-> Len(rows) + 1, title |-> metadata.title,
     published_date |-> metadata.published_date, isbn |-> metadata.isbn,
     file_type |-> Some("epub"), file_path |-> Some(metadata.file_path),
     checksum |-> Some(metadata.checksum)]

\* the row AuthorRepo::add stores for a NewAuthor
NewAuthor(rows, name) == [author_id |-> Len(rows) + 1, name |-> name]

\* the BookAuthors row linking a book to an author
BookAuthors(book, author) == [book_id |-> book.book_id, author_id |-> author.author_id]

Store == [books |-> books, authors |-> authors, book_authors |-> book_authors]

NoStore == [books |-> <<>>, authors |-> <<>>, book_authors |-> <<>>]

\* a caller that runs no command.  found: the files the command was given;
\* walked: whether the directory walk succeeded; queue: the files still to
\* import; metadata, book, author, author_pos: the locals of
\* add_book_from_metadata; before: the store when add_book_from_metadata
\* was called; returned: what add_book_from_file returned last; handled:
\* the outcome of each file handled so far; pc: "idle" | "file" | "check" |
\* "add" | "fetch" | "authors" | "author_add" | "author_fetch" | "link" |
\* "done" | "panicked"
IdleCaller ==
    [op |-> "idle", found |-> <<>>, walked |-> TRUE, queue |-> <<>>,
     metadata |-> None, book |-> None, author |-> None, author_pos |-> 0,
     before |-> NoStore, returned |-> None, handled |-> <<>>,
     pc |-> "idle", result |-> NoReturn]

ImportIdle ==
    /\ books = <<>>
    /\ authors = <<>>
    /\ book_authors = <<>>
    /\ import = [p \in Callers |-> IdleCaller]
    /\ parsed = <<>>
    /\ commands = 0

\* the directory listings scan_epubs collects
Listings ==
    { l \in SeqsUpTo(ImportPaths, MaxScanFiles) :
        \A i, j \in 1..Len(l) : i # j => l[i] # l[j] }

CanStart(p) ==
    /\ import[p].pc \in {"idle", "done", "panicked"}
    /\ commands < MaxCommands

\* import_book(path) is called
ImportBook(p) ==
    /\ CanStart(p)
    /\ \E path \in ImportPaths :
         import' = [import EXCEPT ![p] =
                      [IdleCaller EXCEPT !.op = "import_book", !.found = <<path>>,
                                         !.queue = <<path>>, !.pc = "file"]]
    /\ commands' = commands + 1
    /\ UNCHANGED <<books, authors, book_authors, parsed>>

\* scan_books_directory(directory_path) is called and scan_epubs has
\* collected the .epub files: a walk that fails yields entries that are
\* errors, which filter_map(Result::ok) drops
ScanBooksDirectory(p) ==
    /\ CanStart(p)
    /\ \E listing \in Listings, walked \in BOOLEAN :
         import' = [import EXCEPT ![p] =
                      [IdleCaller EXCEPT !.op = "scan_books_directory",
                                         !.walked = walked,
                                         !.found = IF walked THEN listing ELSE <<>>,
                                         !.queue = IF walked THEN listing ELSE <<>>,
                                         !.pc = "file"]]
    /\ commands' = commands + 1
    /\ UNCHANGED <<books, authors, book_authors, parsed>>

\* add_book_from_file returns Err(e): import_book returns the error as a
\* string, add_books_from_dir panics in unwrap()
Failed(c, e) ==
    IF c.op = "import_book"
    THEN [c EXCEPT !.returned = Some(Err(e)), !.handled = Append(@, FALSE),
                   !.pc = "done", !.result = Err(e)]
    ELSE [c EXCEPT !.returned = Some(Err(e)), !.handled = Append(@, FALSE),
                   !.pc = "panicked"]

\* add_book_from_file returns Ok(()): import_book returns Ok(true),
\* add_books_from_dir goes on with the next file
Succeeded(c) ==
    IF c.op = "import_book"
    THEN [c EXCEPT !.returned = Some(Ok(<<>>)), !.handled = Append(@, TRUE),
                   !.queue = Tail(@), !.pc = "done", !.result = Ok(TRUE)]
    ELSE [c EXCEPT !.returned = Some(Ok(<<>>)), !.handled = Append(@, TRUE),
                   !.queue = Tail(@), !.pc = "file"]

\* the caller after parse_epub_meta returned r
Parsed(c, r) ==
    IF r.ok
    THEN [c EXCEPT !.metadata = Some(r.value), !.book = None, !.author = None,
                   !.author_pos = 0, !.before = Store, !.returned = None,
                   !.pc = "check"]
    ELSE Failed([c EXCEPT !.metadata = None, !.returned = None],
                "Failed to parse EPUB metadata")

\* add_book_from_file(path): parse_epub_meta, then add_book_from_metadata is called
AddBookFromFile(p) ==
    /\ import[p].pc = "file"
    /\ import[p].queue # <<>>
    /\ import' = [import EXCEPT ![p] = Parsed(@, parse_epub_meta(Head(@.queue)))]
    /\ parsed' = Append(parsed,
                        [path   |-> Head(import[p].queue),
                         digest |-> compute_checksum(Head(import[p].queue)),
                         result |-> parse_epub_meta(Head(import[p].queue))])
    /\ UNCHANGED <<books, authors, book_authors, commands>>

\* add_books_from_dir returned: scan_books_directory returns Ok(())
ScanReturn(p) ==
    /\ import[p].op = "scan_books_directory"
    /\ import[p].pc = "file"
    /\ import[p].queue = <<>>
    /\ import' = [import EXCEPT ![p] = [@ EXCEPT !.pc = "done", !.result = Ok(<<>>)]]
    /\ UNCHANGED <<books, authors, book_authors, parsed, commands>>

\* mutant of IsDuplicate: the result of the search is not looked at
NeverDuplicate(existing) == FALSE

\* if let Some(_existing) = repo.search_by_checksum(..).await?
IsDuplicate(existing) == existing # None

Checked(c, db_ok, existing) ==
    IF ~db_ok THEN Failed(c, "db")
    ELSE IF IsDuplicate(existing) THEN Failed(c, "UniqueViolation")
    ELSE [c EXCEPT !.pc = "add"]

\* the duplicate check of add_book_from_metadata
CheckDuplicate(p) ==
    /\ import[p].pc = "check"
    /\ \E db_ok \in BOOLEAN :
         import' = [import EXCEPT ![p] =
                      Checked(@, db_ok, SearchByChecksum(books, @.metadata[1].checksum))]
    /\ UNCHANGED <<books, authors, book_authors, parsed, commands>>

\* repo.add(new_book).await?
AddBook(p) ==
    /\ import[p].pc = "add"
    /\ \E db_ok \in BOOLEAN :
         IF db_ok
         THEN /\ books' = Append(books, NewBook(books, import[p].metadata[1]))
              /\ import' = [import EXCEPT ![p] = [@ EXCEPT !.pc = "fetch"]]
         ELSE /\ books' = books
              /\ import' = [import EXCEPT ![p] = Failed(@, "db")]
    /\ UNCHANGED <<authors, book_authors, parsed, commands>>

Fetched(c, db_ok, existing) ==
    IF ~db_ok THEN Failed(c, "db")
    ELSE IF existing = None THEN Failed(c, "NotNullViolation")
    ELSE [c EXCEPT !.book = existing, !.author_pos = 1, !.pc = "authors"]

\* let book = repo.search_by_checksum(..).await?.ok_or_else(..)?
FetchBook(p) ==
    /\ import[p].pc = "fetch"
    /\ \E db_ok \in BOOLEAN :
         import' = [import EXCEPT ![p] =
                      Fetched(@, db_ok, SearchByChecksum(books, @.metadata[1].checksum))]
    /\ UNCHANGED <<books, authors, book_authors, parsed, commands>>

\* the loop over metadata.authors is over: Ok(())
AuthorsDone(p) ==
    /\ import[p].pc = "authors"
    /\ import[p].author_pos > Len(import[p].metadata[1].authors)
    /\ import' = [import EXCEPT ![p] = Succeeded(@)]
    /\ UNCHANGED <<books, authors, book_authors, parsed, commands>>

\* the author of the iteration
AuthorName(c) == c.metadata[1].authors[c.author_pos]

\* mutant of Searched: an author that exists is not reused
SearchedAsNew(c, db_ok, existing) ==
    IF ~db_ok THEN Failed(c, "db") ELSE [c EXCEPT !.pc = "author_add"]

Searched(c, db_ok, existing) ==
    IF ~db_ok THEN Failed(c, "db")
    ELSE IF existing = None THEN [c EXCEPT !.pc = "author_add"]
    ELSE [c EXCEPT !.author = existing, !.pc = "link"]

\* let existing_author = author_repo.search_by_name(&author).await?...next()
SearchAuthor(p) ==
    /\ import[p].pc = "authors"
    /\ import[p].author_pos <= Len(import[p].metadata[1].authors)
    /\ \E db_ok \in BOOLEAN :
         import' = [import EXCEPT ![p] =
                      Searched(@, db_ok, FirstAuthorNamed(authors, AuthorName(@)))]
    /\ UNCHANGED <<books, authors, book_authors, parsed, commands>>

\* author_repo.add(new_author).await?
AddAuthor(p) ==
    /\ import[p].pc = "author_add"
    /\ \E db_ok \in BOOLEAN :
         IF db_ok
         THEN /\ authors' = Append(authors, NewAuthor(authors, AuthorName(import[p])))
              /\ import' = [import EXCEPT ![p] = [@ EXCEPT !.pc = "author_fetch"]]
         ELSE /\ authors' = authors
              /\ import' = [import EXCEPT ![p] = Failed(@, "db")]
    /\ UNCHANGED <<books, book_authors, parsed, commands>>

FetchedAuthor(c, db_ok, existing) ==
    IF ~db_ok THEN Failed(c, "db")
    ELSE IF existing = None THEN Failed(c, "NotNullViolation")
    ELSE [c EXCEPT !.author = existing, !.pc = "link"]

\* let created_author = author_repo.search_by_name(&author).await?...?
FetchAuthor(p) ==
    /\ import[p].pc = "author_fetch"
    /\ \E db_ok \in BOOLEAN :
         import' = [import EXCEPT ![p] =
                      FetchedAuthor(@, db_ok, FirstAuthorNamed(authors, AuthorName(@)))]
    /\ UNCHANGED <<books, authors, book_authors, parsed, commands>>

\* book_author_repo.add(new_book_author).await?, in either branch
LinkAuthor(p) ==
    /\ import[p].pc = "link"
    /\ \E db_ok \in BOOLEAN :
         IF db_ok
         THEN /\ book_authors' = Append(book_authors,
                                        BookAuthors(import[p].book[1], import[p].author[1]))
              /\ import' = [import EXCEPT ![p] =
                              [@ EXCEPT !.author_pos = @ + 1, !.pc = "authors"]]
         ELSE /\ book_authors' = book_authors
              /\ import' = [import EXCEPT ![p] = Failed(@, "db")]
    /\ UNCHANGED <<books, authors, parsed, commands>>

(***************************************************************************)
(* The user store and the register command.  register is an async command: *)
(* the calls of several callers interleave at each .await.  Any call of    *)
(* the repository can fail with a database error.                          *)
(***************************************************************************)
Usernames == {"ann", "bob"}

Passwords == {"pw1", "pw2"}

\* SaltString::generate(&mut OsRng): the salts a call can draw
Salts == {1, 2}

\* argon2.hash_password(password.as_bytes(), &salt)
Argon2Hash(password, salt) == [argon2 |-> password, salt |-> salt]

\* UserRepo::search_by_username_exact: the first row with the username
SearchByUsernameExact(rows, username) ==
    IF \E i \in 1..Len(rows) : rows[i].username = username
    THEN Some(rows[CHOOSE i \in 1..Len(rows) :
                  /\ rows[i].username = username
                  /\ \A j \in 1..(i - 1) : rows[j].username # username])
    ELSE None

\* the row UserRepo::add stores for a NewUser
NewUser(rows, username, password_hash) ==
    [user_id |-> Len(rows) + 1, username |-> username,
     password_hash |-> password_hash, email |-> None, role |-> None]

\* a caller that runs no register call.  before: the users table when
\* register was called; pc: "idle" | "hash" | "search" | "add" | "done"
IdleRegister ==
    [username |-> "", password |-> "", hashed_password |-> None,
     before |-> <<>>, pc |-> "idle", result |-> NoReturn]

UsersIdle ==
    /\ users = <<>>
    /\ register = [p \in Callers |-> IdleRegister]
    /\ registrations = 0

\* register(username, password) is called
Register(p) ==
    /\ register[p].pc \in {"idle", "done"}
    /\ registrations < MaxRegistrations
    /\ \E username \in Usernames, password \in Passwords :
         register' = [register EXCEPT ![p] =
                        [IdleRegister EXCEPT !.username = username,
                                             !.password = password,
                                             !.before = users, !.pc = "hash"]]
    /\ registrations' = registrations + 1
    /\ UNCHANGED users

Hashed(c, hash_ok, salt) ==
    IF hash_ok
    THEN [c EXCEPT !.hashed_password = Some(Argon2Hash(c.password, salt)),
                   !.pc = "search"]
    ELSE [c EXCEPT !.pc = "done", !.result = Err("password hash")]

\* auth.hash_password_async(password).await.map_err(|e| e.to_string())?
HashPassword(p) ==
    /\ register[p].pc = "hash"
    /\ \E hash_ok \in BOOLEAN, salt \in Salts :
         register' = [register EXCEPT ![p] = Hashed(@, hash_ok, salt)]
    /\ UNCHANGED <<users, registrations>>

\* repo.search_by_username_exact(username).await...?.is_some()
UsernameTaken(existing) == existing # None

SearchedUsername(c, db_ok, existing) ==
    IF ~db_ok THEN [c EXCEPT !.pc = "done", !.result = Err("db")]
    ELSE IF UsernameTaken(existing)
    THEN [c EXCEPT !.pc = "done", !.result = Err("Username already exists")]
    ELSE [c EXCEPT !.pc = "add"]

\* the test of register: is the username stored
SearchUsername(p) ==
    /\ register[p].pc = "search"
    /\ \E db_ok \in BOOLEAN :
         register' = [register EXCEPT ![p] =
                        SearchedUsername(@, db_ok,
                                         SearchByUsernameExact(users, @.username))]
    /\ UNCHANGED <<users, registrations>>

\* repo.add(new_user).await.map_err(|e| e.to_string())?; Ok(true)
AddUser(p) ==
    /\ register[p].pc = "add"
    /\ \E db_ok \in BOOLEAN :
         IF db_ok
         THEN /\ users' = Append(users, NewUser(users, register[p].username,
                                                register[p].hashed_password[1]))
              /\ register' = [register EXCEPT ![p] =
                                [@ EXCEPT !.pc = "done", !.result = Ok(TRUE)]]
         ELSE /\ users' = users
              /\ register' = [register EXCEPT ![p] =
                                [@ EXCEPT !.pc = "done", !.result = Err("db")]]
    /\ UNCHANGED registrations

(***************************************************************************)
(* Concurrent calls of get_epub_content, parse_epub_meta and               *)
(* get_cover_image_streamed: every caller runs one call, the steps of the  *)
(* calls interleave.  The files are read, never written.                   *)
(***************************************************************************)
ExtractionOps == {"get_epub_content", "parse_epub_meta", "get_cover_image_streamed"}

ContainerPaths == {"x.epub", "y.epub", "z.epub"}

Container(bytes, m, sp, pkg) ==
    [readable |-> TRUE, bytes |-> bytes, manifest |-> m, spine |-> sp, package |-> pkg]

\* the files on disk: x.epub and y.epub are containers, z.epub is none
ContainerAt(path) ==
    IF path = "x.epub"
    THEN Container(<<80, 75, 1>>,
                   ManifestWith(TRUE, TRUE, <<Elem("img", "src", "\"", RefUp), Text("body")>>),
                   <<"d1", "d2">>,
                   [openable |-> TRUE, title |-> Some("Dune"), creators |-> <<"Ann">>,
                    publishers |-> <<>>, date |-> None,
                    identifiers |-> << <<"urn:isbn:", "1">> >>,
                    cover |-> Some(CoverResource(TRUE))])
    ELSE IF path = "y.epub"
    THEN Container(<<80, 75, 2>>,
                   ManifestWith(TRUE, FALSE, <<Elem("image", "href", "'", RefMissing),
                                               Elem("img", "src", "\"", RefData)>>),
                   <<"d2", "d1">>,
                   [openable |-> TRUE, title |-> None, creators |-> <<>>,
                    publishers |-> <<"Acme">>, date |-> None, identifiers |-> <<>>,
                    cover |-> None])
    ELSE Container(<<0>>, <<>>, <<>>, NoPackage)

\* a call: overlapped records that a step of the call was taken while
\* another call was between its first and its last step;
\* pc: "idle" | "call" | "spine" | "blocking" | "done"
NewCall(op, path) ==
    [op |-> op, path |-> path, pos |-> 0, digest |-> None, overlapped |-> FALSE,
     pc |-> "call", result |-> NoReturn]

IdleCall == [NewCall("idle", "") EXCEPT !.pc = "idle"]

CallsIdle ==
    /\ calls = [p \in Callers |-> IdleCall]
    /\ buffers = [p \in Callers |-> <<>>]

InitCalls ==
    /\ calls \in [Callers -> {NewCall(op, path) : op \in ExtractionOps, path \in ContainerPaths}]
    /\ buffers = [p \in Callers |-> <<>>]

\* another call is between its first and its last step
OtherMidCall(p) == \E q \in Callers \ {p} : calls[q].pc \in {"spine", "blocking"}

\* mutant of OwnBuffer: every call appends to the buffer of caller c1
SharedBuffer(p) == "c1"

\* let mut combined_html = String::new(): the buffer is a local of the call
OwnBuffer(p) == p

\* what one spine entry appends to the buffer
Fragment(resource, m) ==
    IF resource.found /\ resource.kind = XHTML /\ resource.readable
    THEN BodyInnerHtml(ImagePass(ImgPass(resource.text, resource.href, m), resource.href, m))
    ELSE <<>>

Opened(c, opened, mid) ==
    IF opened
    THEN [c EXCEPT !.pc = "spine", !.pos = 1, !.overlapped = @ \/ mid]
    ELSE [c EXCEPT !.pc = "done", !.result = Err("open"), !.overlapped = @ \/ mid]

\* get_epub_content: Epub::open(&path_str) and the new buffer
CallOpenEpub(p) ==
    /\ calls[p].op = "get_epub_content" /\ calls[p].pc = "call"
    /\ calls' = [calls EXCEPT ![p] =
                   Opened(@, ContainerAt(@.path).package.openable, OtherMidCall(p))]
    /\ buffers' = IF ContainerAt(calls[p].path).package.openable
                  THEN [buffers EXCEPT ![OwnBuffer(p)] = <<>>]
                  ELSE buffers

\* get_epub_content: one iteration of `for item_ref in spine`
CallSpineItem(p) ==
    /\ calls[p].pc = "spine"
    /\ calls[p].pos <= Len(ContainerAt(calls[p].path).spine)
    /\ buffers' = [buffers EXCEPT ![OwnBuffer(p)] =
                     @ \o Fragment(by_id(ContainerAt(calls[p].path).manifest,
                                         ContainerAt(calls[p].path).spine[calls[p].pos]),
                                   ContainerAt(calls[p].path).manifest)]
    /\ calls' = [calls EXCEPT ![p] =
                   [@ EXCEPT !.pos = @ + 1, !.overlapped = @ \/ OtherMidCall(p)]]

\* get_epub_content: Ok(combined_html)
CallReturnContent(p) ==
    /\ calls[p].pc = "spine"
    /\ calls[p].pos > Len(ContainerAt(calls[p].path).spine)
    /\ calls' = [calls EXCEPT ![p] =
                   [@ EXCEPT !.pc = "done", !.result = Ok(buffers[OwnBuffer(p)]),
                             !.overlapped = @ \/ OtherMidCall(p)]]
    /\ UNCHANGED buffers

Digested(c, digest, mid) ==
    IF digest.ok
    THEN [c EXCEPT !.pc = "blocking", !.digest = Some(digest.value), !.overlapped = @ \/ mid]
    ELSE [c EXCEPT !.pc = "done", !.result = digest, !.overlapped = @ \/ mid]

\* parse_epub_meta: let checksum = compute_checksum(&path).await?
CallComputeChecksum(p) ==
    /\ calls[p].op = "parse_epub_meta" /\ calls[p].pc = "call"
    /\ calls' = [calls EXCEPT ![p] =
                   Digested(@,
                            IF ContainerAt(@.path).readable
                            THEN Ok(Sha256Hex(ContainerAt(@.path).bytes)) ELSE Err("io"),
                            OtherMidCall(p))]
    /\ UNCHANGED buffers

ParsedContainer(path, digest) ==
    IF ~ContainerAt(path).package.openable THEN Err("open")
    ELSE Ok(BookMetadata(ContainerAt(path).package, path, digest))

\* parse_epub_meta: the closure run by spawn_blocking
CallParseMeta(p) ==
    /\ calls[p].pc = "blocking"
    /\ calls' = [calls EXCEPT ![p] =
                   [@ EXCEPT !.pc = "done",
                             !.result = ParsedContainer(calls[p].path, calls[p].digest[1]),
                             !.overlapped = @ \/ OtherMidCall(p)]]
    /\ UNCHANGED buffers

\* get_cover_image_streamed for a stored book whose file_path is the path
CallCoverImage(p) ==
    /\ calls[p].op = "get_cover_image_streamed" /\ calls[p].pc = "call"
    /\ calls' = [calls EXCEPT ![p] =
                   [@ EXCEPT !.pc = "done",
                             !.result = CoverImageStreamed("some",
                                            ContainerAt(calls[p].path).package),
                             !.overlapped = @ \/ OtherMidCall(p)]]
    /\ UNCHANGED buffers

(***************************************************************************)
(* The resolver as a state machine: one call, then the result resolved     *)
(* once more against a base href whose directory portion is empty.         *)
(***************************************************************************)
ExampleBases == { <<"chapter1", SEP, "page.xhtml">>,
                  <<"page.xhtml">>,
                  <<"a", SEP, "b", SEP, "c.xhtml">> }

ExampleRels == { <<DOT, DOT, SEP, "images", SEP, "cover.png">>,
                 <<DOT, SEP, "img", SEP, "a.png">>,
                 <<DOT, DOT, SEP, DOT, DOT, SEP, DOT, DOT, SEP, DOT, DOT, SEP, "x.png">>,
                 <<DOT, DOT, BSL, "images", BSL, "a.png">> }

Bases == SeqsUpTo(PathAlphabet, MaxBaseLen) \cup ExampleBases
Rels  == SeqsUpTo(PathAlphabet, MaxRelLen) \cup ExampleRels

EmptyDirBases == { <<"page.xhtml">>, <<"a">> }

NoResult == <<"<none>">>

\* the resolver is not in use
ResolveIdle ==
    /\ base_href = <<>>
    /\ relative_path = <<>>
    /\ resolved = NoResult
    /\ re_resolved = NoResult
    /\ rpc = "idle"

\* no container is in use
ContentIdle ==
    /\ openable = FALSE
    /\ manifest = <<>>
    /\ spine = <<>>
    /\ spine_pos = 0
    /\ combined_html = <<>>
    /\ processed = <<>>
    /\ result = NoReturn
    /\ cpc = "idle"

InitResolve ==
    /\ base_href \in Bases
    /\ relative_path \in Rels
    /\ resolved = NoResult
    /\ re_resolved = NoResult
    /\ rpc = "call"
    /\ ContentIdle
    /\ MetaIdle
    /\ FontsIdle
    /\ ImportIdle
    /\ CallsIdle
    /\ UsersIdle

ResolvePath ==
    /\ rpc = "call"
    /\ resolved' = resolve_path(base_href, relative_path)
    /\ rpc' = "returned"
    /\ UNCHANGED <<base_href, relative_path, re_resolved, cvars, mvars, fvars, svars, kvars, uvars>>

ResolveAgain ==
    /\ rpc = "returned"
    /\ \E b \in EmptyDirBases : re_resolved' = resolve_path(b, resolved)
    /\ rpc' = "again"
    /\ UNCHANGED <<base_href, relative_path, resolved, cvars, mvars, fvars, svars, kvars, uvars>>

NextResolve == ResolvePath \/ ResolveAgain

SpecResolve == InitResolve /\ [][NextResolve]_vars

(***************************************************************************)
(* The content assembler as a state machine: one call of get_epub_content. *)
(***************************************************************************)
Init == InitContent /\ ResolveIdle /\ MetaIdle /\ FontsIdle /\ ImportIdle /\ CallsIdle /\ UsersIdle

Next ==
    \/ OpenEpub /\ UNCHANGED <<rvars, mvars, fvars, svars, kvars, uvars>>
    \/ OpenEpubFails /\ UNCHANGED <<rvars, mvars, fvars, svars, kvars, uvars>>
    \/ SpineItem /\ UNCHANGED <<rvars, mvars, fvars, svars, kvars, uvars>>
    \/ ReturnContent /\ UNCHANGED <<rvars, mvars, fvars, svars, kvars, uvars>>

Spec == Init /\ [][Next]_vars

(***************************************************************************)
(* The metadata extractor and the cover streamer as a state machine: one   *)
(* call of parse_epub_meta, get_cover_image_streamed or get_cover_img.     *)
(***************************************************************************)
InitMeta ==
    /\ InitParseMeta \/ InitCover
    /\ ResolveIdle /\ ContentIdle /\ FontsIdle /\ ImportIdle /\ CallsIdle /\ UsersIdle

NextMeta ==
    \/ ComputeChecksum /\ UNCHANGED <<rvars, cvars, fvars, svars, kvars, uvars>>
    \/ ComputeChecksumFails /\ UNCHANGED <<rvars, cvars, fvars, svars, kvars, uvars>>
    \/ ParseMeta /\ UNCHANGED <<rvars, cvars, fvars, svars, kvars, uvars>>
    \/ GetCoverImageStreamed /\ UNCHANGED <<rvars, cvars, fvars, svars, kvars, uvars>>
    \/ GetCoverImg /\ UNCHANGED <<rvars, cvars, fvars, svars, kvars, uvars>>

SpecMeta == InitMeta /\ [][NextMeta]_vars

(***************************************************************************)
(* The font extractor as a state machine: one call of                      *)
(* extract_fonts_to_disk.                                                  *)
(***************************************************************************)
InitFontsCall ==
    InitFonts /\ ResolveIdle /\ ContentIdle /\ MetaIdle /\ ImportIdle /\ CallsIdle /\ UsersIdle

NextFonts ==
    \/ ExtractOpenFails /\ UNCHANGED <<rvars, cvars, mvars, svars, kvars, uvars>>
    \/ ExtractCreateDirFails /\ UNCHANGED <<rvars, cvars, mvars, svars, kvars, uvars>>
    \/ ExtractOpen /\ UNCHANGED <<rvars, cvars, mvars, svars, kvars, uvars>>
    \/ ExtractFont /\ UNCHANGED <<rvars, cvars, mvars, svars, kvars, uvars>>
    \/ ExtractReturn /\ UNCHANGED <<rvars, cvars, mvars, svars, kvars, uvars>>

SpecFonts == InitFontsCall /\ [][NextFonts]_vars

(***************************************************************************)
(* The store as a state machine: commands run one after another, each to   *)
(* its return, by one caller.                                              *)
(***************************************************************************)
SoleCaller == "c1"

InitImport ==
    ImportIdle /\ ResolveIdle /\ ContentIdle /\ MetaIdle /\ FontsIdle /\ CallsIdle /\ UsersIdle

NextImport ==
    \/ ImportBook(SoleCaller) /\ UNCHANGED <<rvars, cvars, mvars, fvars, kvars, uvars>>
    \/ ScanBooksDirectory(SoleCaller) /\ UNCHANGED <<rvars, cvars, mvars, fvars, kvars, uvars>>
    \/ AddBookFromFile(SoleCaller) /\ UNCHANGED <<rvars, cvars, mvars, fvars, kvars, uvars>>
    \/ ScanReturn(SoleCaller) /\ UNCHANGED <<rvars, cvars, mvars, fvars, kvars, uvars>>
    \/ CheckDuplicate(SoleCaller) /\ UNCHANGED <<rvars, cvars, mvars, fvars, kvars, uvars>>
    \/ AddBook(SoleCaller) /\ UNCHANGED <<rvars, cvars, mvars, fvars, kvars, uvars>>
    \/ FetchBook(SoleCaller) /\ UNCHANGED <<rvars, cvars, mvars, fvars, kvars, uvars>>
    \/ AuthorsDone(SoleCaller) /\ UNCHANGED <<rvars, cvars, mvars, fvars, kvars, uvars>>
    \/ SearchAuthor(SoleCaller) /\ UNCHANGED <<rvars, cvars, mvars, fvars, kvars, uvars>>
    \/ AddAuthor(SoleCaller) /\ UNCHANGED <<rvars, cvars, mvars, fvars, kvars, uvars>>
    \/ FetchAuthor(SoleCaller) /\ UNCHANGED <<rvars, cvars, mvars, fvars, kvars, uvars>>
    \/ LinkAuthor(SoleCaller) /\ UNCHANGED <<rvars, cvars, mvars, fvars, kvars, uvars>>

SpecImport == InitImport /\ [][NextImport]_vars

(***************************************************************************)
(* The concurrent calls as a state machine: any caller takes the next      *)
(* step of its call.                                                       *)
(***************************************************************************)
InitConcurrent ==
    InitCalls /\ ResolveIdle /\ ContentIdle /\ MetaIdle /\ FontsIdle /\ ImportIdle /\ UsersIdle

NextConcurrent ==
    \E p \in Callers :
        \/ CallOpenEpub(p) /\ UNCHANGED <<rvars, cvars, mvars, fvars, svars, uvars>>
        \/ CallSpineItem(p) /\ UNCHANGED <<rvars, cvars, mvars, fvars, svars, uvars>>
        \/ CallReturnContent(p) /\ UNCHANGED <<rvars, cvars, mvars, fvars, svars, uvars>>
        \/ CallComputeChecksum(p) /\ UNCHANGED <<rvars, cvars, mvars, fvars, svars, uvars>>
        \/ CallParseMeta(p) /\ UNCHANGED <<rvars, cvars, mvars, fvars, svars, uvars>>
        \/ CallCoverImage(p) /\ UNCHANGED <<rvars, cvars, mvars, fvars, svars, uvars>>

SpecConcurrent == InitConcurrent /\ [][NextConcurrent]_vars

(***************************************************************************)
(* Concurrent imports as a state machine: import_book is an async command, *)
(* so the calls of several callers interleave at every .await of           *)
(* add_book_from_metadata.                                                 *)
(***************************************************************************)
InitImports ==
    ImportIdle /\ ResolveIdle /\ ContentIdle /\ MetaIdle /\ FontsIdle /\ CallsIdle /\ UsersIdle

NextImports ==
    \E p \in Callers :
        \/ ImportBook(p) /\ UNCHANGED <<rvars, cvars, mvars, fvars, kvars, uvars>>
        \/ AddBookFromFile(p) /\ UNCHANGED <<rvars, cvars, mvars, fvars, kvars, uvars>>
        \/ CheckDuplicate(p) /\ UNCHANGED <<rvars, cvars, mvars, fvars, kvars, uvars>>
        \/ AddBook(p) /\ UNCHANGED <<rvars, cvars, mvars, fvars, kvars, uvars>>
        \/ FetchBook(p) /\ UNCHANGED <<rvars, cvars, mvars, fvars, kvars, uvars>>
        \/ AuthorsDone(p) /\ UNCHANGED <<rvars, cvars, mvars, fvars, kvars, uvars>>
        \/ SearchAuthor(p) /\ UNCHANGED <<rvars, cvars, mvars, fvars, kvars, uvars>>
        \/ AddAuthor(p) /\ UNCHANGED <<rvars, cvars, mvars, fvars, kvars, uvars>>
        \/ FetchAuthor(p) /\ UNCHANGED <<rvars, cvars, mvars, fvars, kvars, uvars>>
        \/ LinkAuthor(p) /\ UNCHANGED <<rvars, cvars, mvars, fvars, kvars, uvars>>

SpecImports == InitImports /\ [][NextImports]_vars

(***************************************************************************)
(* The register calls as a state machine: any caller starts a call or      *)
(* takes the next step of its call.                                        *)
(***************************************************************************)
InitRegister ==
    /\ UsersIdle
    /\ ResolveIdle /\ ContentIdle /\ MetaIdle /\ FontsIdle /\ ImportIdle /\ CallsIdle

NextRegister ==
    \E p \in Callers :
        \/ Register(p) /\ UNCHANGED <<rvars, cvars, mvars, fvars, svars, kvars>>
        \/ HashPassword(p) /\ UNCHANGED <<rvars, cvars, mvars, fvars, svars, kvars>>
        \/ SearchUsername(p) /\ UNCHANGED <<rvars, cvars, mvars, fvars, svars, kvars>>
        \/ AddUser(p) /\ UNCHANGED <<rvars, cvars, mvars, fvars, svars, kvars>>

SpecRegister == InitRegister /\ [][NextRegister]_vars


(***************************************************************************)
(* The algorithm of the specification (section 4.2), written from its      *)
(* text: directory portion of the base, join, scan the segments, rejoin.   *)
(***************************************************************************)
RECURSIVE KeepSegments(_)
KeepSegments(runs) ==
    IF runs = <<>> THEN <<>>
    ELSE (IF Head(runs) = <<>> THEN <<>> ELSE <<Head(runs)>>) \o KeepSegments(Tail(runs))

\* the non-empty segments of a path
Segments(s) == KeepSegments(SplitSep(s))

RECURSIVE DropDots(_)
DropDots(segs) ==
    IF segs = <<>> THEN <<>>
    ELSE (IF Head(segs) = <<DOT>> THEN <<>> ELSE <<Head(segs)>>) \o DropDots(Tail(segs))

\* the directory portion: the segments that lead to the last one
DirSegments(base) ==
    LET segs == DropDots(Segments(base))
    IN  IF segs = <<>> THEN <<>> ELSE SubSeq(segs, 1, Len(segs) - 1)

RECURSIVE ScanSegments(_, _)
ScanSegments(segs, acc) ==
    IF segs = <<>> THEN acc
    ELSE LET g == Head(segs)
         IN  ScanSegments(Tail(segs),
                 IF g = <<DOT>> THEN acc
                 ELSE IF g = <<DOT, DOT>>
                      THEN (IF acc = <<>> THEN acc ELSE SubSeq(acc, 1, Len(acc) - 1))
                 ELSE Append(acc, g))

RECURSIVE Rejoin(_)
Rejoin(segs) ==
    IF segs = <<>> THEN <<>>
    ELSE IF Len(segs) = 1 THEN Head(segs)
    ELSE Head(segs) \o <<SEP>> \o Rejoin(Tail(segs))

SpecifiedResolve(base, rel) ==
    LET dir      == IF HasRoot(rel) THEN <<>> ELSE DirSegments(base)
        absolute == HasRoot(rel) \/ HasRoot(base)
        acc      == ScanSegments(dir \o Segments(rel), <<>>)
    IN  ReplaceBackslash((IF absolute THEN <<SEP>> ELSE <<>>) \o Rejoin(acc))

\* number of directory levels the base contributes to the accumulator
DirDepth(base) == Len(ScanSegments(DirSegments(base), <<>>))

\* number of leading ".." segments of a reference
RECURSIVE LeadingUps(_)
LeadingUps(rel) ==
    IF Len(rel) >= 2 /\ rel[1] = DOT /\ rel[2] = DOT /\ (Len(rel) = 2 \/ rel[3] = SEP)
    THEN 1 + LeadingUps(SubSeq(rel, 4, Len(rel)))
    ELSE 0

RECURSIVE DropLeadingSeps(_)
DropLeadingSeps(s) == IF HasRoot(s) THEN DropLeadingSeps(Tail(s)) ELSE s

\* the reference without its first ".." segment (and the separators after it)
DropFirstUp(rel) == DropLeadingSeps(SubSeq(rel, 3, Len(rel)))

\* normal form: forward slashes only, no "." segment and no ".." segment
IsNormalForm(s) ==
    /\ \A i \in 1..Len(s) : s[i] # BSL
    /\ \A i \in 1..Len(SplitSep(s)) :
           SplitSep(s)[i] # <<DOT>> /\ SplitSep(s)[i] # <<DOT, DOT>>

(***************************************************************************)
(* Claims about resolve_path, checked under SpecResolve.                   *)
(***************************************************************************)

\* C5: for every base href and reference, resolve_path returns what the
\* specified algorithm returns; resolve("chapter1/page.xhtml",
\* "../images/cover.png") = "images/cover.png" and resolve("page.xhtml",
\* "./img/a.png") = "img/a.png".
C5_ResolveFollowsAlgorithm ==
    rpc # "call" =>
        /\ resolved = SpecifiedResolve(base_href, relative_path)
        /\ (base_href = <<"chapter1", SEP, "page.xhtml">>
              /\ relative_path = <<DOT, DOT, SEP, "images", SEP, "cover.png">>)
           => resolved = <<"images", SEP, "cover.png">>
        /\ (base_href = <<"page.xhtml">>
              /\ relative_path = <<DOT, SEP, "img", SEP, "a.png">>)
           => resolved = <<"img", SEP, "a.png">>

\* C6: resolve_path returns a path for every base href and reference, and a
\* reference with more leading ".." segments than the base has directory
\* levels resolves as if the excess ".." were absent;
\* resolve("a/b/c.xhtml", "../../../../x.png") = "x.png".
C6_ExcessParentDiscarded ==
    rpc # "call" =>
        /\ resolved # NoResult
        /\ LeadingUps(relative_path) > DirDepth(base_href)
           => resolved = resolve_path(base_href, DropFirstUp(relative_path))
        /\ (base_href = <<"a", SEP, "b", SEP, "c.xhtml">>
              /\ relative_path = <<DOT, DOT, SEP, DOT, DOT, SEP, DOT, DOT, SEP,
                                   DOT, DOT, SEP, "x.png">>)
           => resolved = <<"x.png">>

\* C7: for every base href and reference the path returned by resolve_path
\* is in normal form: no backslash, no "." segment, no ".." segment.
C7_ResolvedIsNormalForm ==
    rpc # "call" => IsNormalForm(resolved)

\* C8: resolving resolve(b, r) once more against a base href whose
\* directory portion is empty returns resolve(b, r) unchanged.
C8_ResolveIdempotent ==
    rpc = "again" => re_resolved = resolved

\* Where the base href has a directory parent the code and the specified
\* algorithm agree (the cases C5 and C6 fail on are those of the other branch).
AgreesWhereParentExists ==
    (rpc # "call" /\ Parent(base_href).some) =>
        /\ resolved = SpecifiedResolve(base_href, relative_path)
        /\ LeadingUps(relative_path) > DirDepth(base_href)
           => resolved = resolve_path(base_href, DropFirstUp(relative_path))


(***************************************************************************)
(* Claims about get_epub_content, checked under Spec.                      *)
(***************************************************************************)
\* the spine positions that list a markup (application/xhtml+xml) document
MarkupPositions ==
    {p \in 1..Len(spine) :
        by_id(manifest, spine[p]).found /\ by_id(manifest, spine[p]).kind = XHTML}

RECURSIVE ConcatFragments(_)
ConcatFragments(recs) ==
    IF recs = <<>> THEN <<>> ELSE Head(recs).fragment \o ConcatFragments(Tail(recs))

\* an element one of the two passes looks at
IsImageRef(node) == ImgReMatches(node) \/ ImageReMatches(node)

IsDataValue(url) == StartsWith(url, "data:")

\* an absolute network URL: http://... or https://...
IsNetworkUrl(url) ==
    \/ Len(url) >= 4 /\ SubSeq(url, 1, 4) = <<"http", ":", SEP, SEP>>
    \/ Len(url) >= 5 /\ SubSeq(url, 1, 5) = <<"http", "s", ":", SEP, SEP>>

\* the manifest resource a reference of the document at `href` points to
Target(href, url) == by_href(manifest, resolve_path(href, url))

LookupFails(href, url) == ~Target(href, url).found \/ ~Target(href, url).readable

\* C1: when get_epub_content returns, its string is the concatenation of
\* exactly one body fragment per markup document of the spine, in spine
\* order and with nothing between them, also when a document's text cannot
\* be read.
C1_OneFragmentPerSpineDocument ==
    (cpc = "done" /\ result.ok) =>
        /\ Len(processed) = Cardinality(MarkupPositions)
        /\ \A k \in 1..Len(processed) :
               /\ processed[k].pos \in MarkupPositions
               /\ processed[k].idref = spine[processed[k].pos]
               /\ \A j \in 1..(k - 1) : processed[j].pos < processed[k].pos
        /\ result.value = ConcatFragments(processed)

\* Where every markup document of the spine can be read, the output is one
\* fragment per document (C1 fails on the unreadable ones only).
OneFragmentPerReadableDocument ==
    (cpc = "done" /\ result.ok
       /\ \A p \in MarkupPositions : by_id(manifest, spine[p]).readable)
    => C1_OneFragmentPerSpineDocument

\* C2: an image reference whose resolved path has no manifest resource, or
\* whose resource cannot be read, keeps its element unmodified; the
\* references after it and the later spine documents are still handled, and
\* get_epub_content returns Ok.
C2_FailedLookupLeavesElement ==
    /\ \A k \in 1..Len(processed) :
         LET rec == processed[k]
         IN  \A i \in 1..Len(rec.content) :
               (IsImageRef(rec.content[i]) /\ LookupFails(rec.href, rec.content[i].url))
               => /\ rec.content_final[i] = rec.content[i]
                  /\ \A j \in (i + 1)..Len(rec.content) :
                       (IsImageRef(rec.content[j])
                          /\ ~SkipsRewrite(rec.content[j].url)
                          /\ ~LookupFails(rec.href, rec.content[j].url))
                       => rec.content_final[j].url =
                              DataUrl(Target(rec.href, rec.content[j].url))
    /\ (cpc = "done" /\ openable) =>
         /\ result.ok
         /\ \A p \in MarkupPositions :
              by_id(manifest, spine[p]).readable
              => \E k \in 1..Len(processed) : processed[k].pos = p

\* a returned call whose first document held a reference that failed to
\* resolve before one that was inlined, and whose spine went on
C2_Witness ==
    /\ cpc = "done" /\ result.ok /\ Len(processed) >= 2
    /\ \E i \in 1..Len(processed[1].content) :
         /\ IsImageRef(processed[1].content[i])
         /\ ~SkipsRewrite(processed[1].content[i].url)
         /\ LookupFails(processed[1].href, processed[1].content[i].url)
         /\ \E j \in (i + 1)..Len(processed[1].content) :
              processed[1].content_final[j] # processed[1].content[j]

\* C3: an image reference that is neither a data value nor an absolute
\* network URL and whose resolved path is a readable manifest resource is
\* replaced by data:<media type>;base64,<bytes>, the rest of the element
\* (quotes included) kept; also when the reference begins with "http".
C3_RelativeReferenceInlined ==
    \A k \in 1..Len(processed) :
        LET rec == processed[k]
        IN  \A i \in 1..Len(rec.content) :
              (/\ IsImageRef(rec.content[i])
               /\ ~IsDataValue(rec.content[i].url)
               /\ ~IsNetworkUrl(rec.content[i].url)
               /\ ~LookupFails(rec.href, rec.content[i].url))
              => rec.content_final[i] =
                    [rec.content[i] EXCEPT
                        !.url = <<"data:">>
                                \o MediaTypeTokens(Target(rec.href, rec.content[i].url).kind)
                                \o <<";base64,">>
                                \o Base64Encode(Target(rec.href, rec.content[i].url).bytes)]

\* References that do not begin with "http" are inlined as C3 says (C3 fails
\* on the relative references that begin with "http" only).
InlinedUnlessHttpPrefix ==
    \A k \in 1..Len(processed) :
        LET rec == processed[k]
        IN  \A i \in 1..Len(rec.content) :
              (/\ IsImageRef(rec.content[i])
               /\ ~IsDataValue(rec.content[i].url)
               /\ ~StartsWith(rec.content[i].url, "http")
               /\ ~LookupFails(rec.href, rec.content[i].url))
              => /\ rec.content_final[i].url =
                        DataUrl(Target(rec.href, rec.content[i].url))
                 /\ rec.content_final[i] =
                        [rec.content[i] EXCEPT !.url = rec.content_final[i].url]

C9_AuthorsPublishersDefaulted ==
    (mop = "parse_epub_meta" /\ mpc = "done" /\ meta_result.ok) =>
        /\ meta_result.value.authors # <<>>
        /\ meta_result.value.publishers # <<>>
        /\ package.creators = <<>>
           => meta_result.value.authors = <<"Unknown Author">>
        /\ package.publishers = <<>>
           => meta_result.value.publishers = <<"Unknown Publisher">>
        /\ package.creators # <<>>
           => meta_result.value.authors = package.creators
        /\ package.publishers # <<>>
           => meta_result.value.publishers = package.publishers

\* a returned record of a package with two creators and no publisher
C9_Witness ==
    /\ mop = "parse_epub_meta" /\ mpc = "done" /\ meta_result.ok
    /\ Len(package.creators) = 2
    /\ package.creators[1] # package.creators[2]
    /\ package.publishers = <<>>

\* C10: on an openable container get_cover_image_streamed returns the
\* cover's bytes when the declared cover can be read, and Ok of no bytes
\* both when no cover is declared and when the declared cover cannot be read.
C10_CoverBytesOrEmpty ==
    (mop = "get_cover_image_streamed" /\ mpc = "done"
       /\ book_lookup = "some" /\ package.openable) =>
        /\ meta_result.ok
        /\ (package.cover # None /\ package.cover[1].readable)
           => meta_result.value = package.cover[1].bytes
        /\ (package.cover = None \/ ~package.cover[1].readable)
           => meta_result.value = <<>>

\* Where the declared cover can be read, or none is declared, cover
\* retrieval is as C10 says (C10 fails on the unreadable cover only).
CoverBytesOrEmptyUnlessUnreadable ==
    (mop = "get_cover_image_streamed" /\ mpc = "done"
       /\ book_lookup = "some" /\ package.openable
       /\ (package.cover = None \/ package.cover[1].readable))
    => C10_CoverBytesOrEmpty

(***************************************************************************)
(* Claims about container-open failures, the isbn and cover_data fields    *)
(* and get_cover_img, checked under SpecMeta.                              *)
(***************************************************************************)
\* the call got as far as Epub::open
ReachedOpen ==
    \/ mop = "parse_epub_meta" /\ file_data.readable
    \/ mop \in {"get_cover_image_streamed", "get_cover_img"} /\ book_lookup = "some"

\* C11: whenever opening the container fails, the operation that asked for
\* it (parse_epub_meta, get_cover_image_streamed, get_cover_img) returns an
\* error; the failure is never absorbed into a successful result such as
\* an absent value.
C11_OpenFailureReturnsError ==
    (mpc = "done" /\ ReachedOpen /\ ~package.openable) =>
        /\ meta_result.returned
        /\ ~meta_result.ok

\* Every operation of the handler returns the open error (C11 fails in
\* get_cover_img only).
OpenFailureReturnsErrorInHandler ==
    (mop # "get_cover_img") => C11_OpenFailureReturnsError

\* get_epub_content returns the open error (under Spec).
ContentOpenFailureReturnsError ==
    (cpc = "done" /\ ~openable) => (result.returned /\ ~result.ok)

IsIsbn(identifier) == StartsWith(identifier, "urn:isbn:")

\* C17: the isbn of the returned record is the value of the first
\* identifier, in declaration order, whose prefix marks it as an ISBN, and
\* none exactly when the package declares no such identifier; identifiers
\* of other schemes before it are skipped.
C17_IsbnIsFirstIsbnIdentifier ==
    (mop = "parse_epub_meta" /\ mpc = "done" /\ meta_result.ok) =>
        /\ (meta_result.value.isbn = None)
             <=> (\A i \in 1..Len(package.identifiers) : ~IsIsbn(package.identifiers[i]))
        /\ \A i \in 1..Len(package.identifiers) :
             (/\ IsIsbn(package.identifiers[i])
              /\ \A j \in 1..(i - 1) : ~IsIsbn(package.identifiers[j]))
             => meta_result.value.isbn = Some(package.identifiers[i])

\* a returned record of a package whose ISBN identifier follows an
\* identifier of another scheme
C17_Witness ==
    /\ mop = "parse_epub_meta" /\ mpc = "done" /\ meta_result.ok
    /\ Len(package.identifiers) = 2
    /\ ~IsIsbn(package.identifiers[1])
    /\ IsIsbn(package.identifiers[2])
    /\ meta_result.value.isbn = Some(package.identifiers[2])

\* C18: cover_data of the returned record is (bytes, declared media type)
\* exactly when the manifest declares a cover image whose bytes can be
\* read, and none otherwise; a missing or unreadable cover never makes
\* parse_epub_meta fail.
C18_CoverDataWhenReadable ==
    (mop = "parse_epub_meta" /\ mpc = "done"
       /\ file_data.readable /\ package.openable) =>
        /\ meta_result.ok
        /\ (package.cover # None /\ package.cover[1].readable)
           => meta_result.value.cover_data
                = Some(<<package.cover[1].bytes, package.cover[1].kind>>)
        /\ (package.cover = None \/ ~package.cover[1].readable)
           => meta_result.value.cover_data = None

\* a returned record of a package whose declared cover cannot be read
C18_Witness ==
    /\ mop = "parse_epub_meta" /\ mpc = "done"
    /\ package.openable /\ package.cover # None
    /\ ~package.cover[1].readable
    /\ meta_result.ok /\ meta_result.value.cover_data = None

\* a cover image is found in the container of the book
CoverFound ==
    /\ book_lookup = "some"
    /\ package.openable
    /\ package.cover # None
    /\ package.cover[1].readable

\* C20: for an existing book get_cover_img returns Some(bytes), the bytes
\* of the declared cover, exactly when a cover image is found in the book's
\* container, and None otherwise; a book whose manifest declares no cover
\* yields None, never Some of an empty byte vector.
C20_SomeExactlyWhenCoverFound ==
    (mop = "get_cover_img" /\ mpc = "done" /\ book_lookup \in {"some", "no_path"}) =>
        /\ meta_result.ok
        /\ CoverFound => meta_result.value = Some(package.cover[1].bytes)
        /\ ~CoverFound => meta_result.value = None

\* Where the container does not open, or declares a cover, get_cover_img
\* is as C20 says (C20 fails on the container without a cover only).
SomeExactlyWhenCoverFoundIfDeclared ==
    (book_lookup = "no_path" \/ ~package.openable \/ package.cover # None)
    => C20_SomeExactlyWhenCoverFound

(***************************************************************************)
(* Claims about extract_fonts_to_disk, checked under SpecFonts.            *)
(***************************************************************************)
\* extract_fonts_to_disk returns the open error (C11, under SpecFonts).
FontsOpenFailureReturnsError ==
    (fpc = "done" /\ ~font_openable) => (font_result.returned /\ ~font_result.ok)

\* the font resources of the manifest
FontPositions == {i \in 1..Len(font_manifest) : IsFontMime(font_manifest[i].kind)}

\* the resource was written and its path is in the returned list
Extracted(resource) ==
    \E k \in 1..Len(font_files) :
        /\ font_files[k].id = resource.id
        /\ \E n \in 1..Len(font_result.value) : font_result.value[n] = font_files[k].path

\* C12: a read or write failure for a font resource is returned to the
\* caller as an error: extract_fonts_to_disk never returns a successful
\* list of paths from which a font that could not be read or written is
\* missing.
C12_FontFailuresPropagated ==
    (fpc = "done" /\ font_result.ok) =>
        \A i \in FontPositions : Extracted(font_manifest[i])

\* With every font readable and every write succeeding, each font of the
\* manifest is in the returned list (C12 fails on a failed read or write only).
FontsExtractedWhenNoFailure ==
    (\A i \in FontPositions : font_manifest[i].readable /\ font_manifest[i].writes)
    => C12_FontFailuresPropagated

\* the name is taken by a font written earlier in the same extraction
Collides(name, k) == \E j \in 1..(k - 1) : font_files[j].path = Join(FontDir, name)

\* the manifest resource of an id
FontOfId(id) ==
    font_manifest[CHOOSE i \in 1..Len(font_manifest) : font_manifest[i].id = id]

\* the name the specification gives the k-th written font
SpecifiedFontName(resource, k) ==
    IF FileName(resource.href) # None /\ ~Collides(FileName(resource.href)[1], k)
    THEN FileName(resource.href)[1]
    ELSE GeneratedFontName(resource.id)

\* C13: each font is written under the file name of its href, or, when
\* that name is unusable or is the name of a font already written in the
\* same extraction, under a generated name holding the resource id; no two
\* fonts are written to the same path and the returned list holds one
\* distinct path per extracted font.
C13_OneDistinctPathPerFont ==
    (fpc = "done" /\ font_result.ok) =>
        /\ Len(font_result.value) = Len(font_files)
        /\ \A k \in 1..Len(font_files) :
             /\ font_result.value[k] = font_files[k].path
             /\ font_files[k].path
                  = Join(FontDir, SpecifiedFontName(FontOfId(font_files[k].id), k))
        /\ \A j, k \in 1..Len(font_files) :
             j # k => font_files[j].path # font_files[k].path

\* With fonts whose file names differ, the extraction is as C13 says (C13
\* fails when two hrefs end in the same file name only).
OneDistinctPathPerFontUnlessSameName ==
    (\A i, j \in FontPositions :
        i # j => FontFilename(font_manifest[i]) # FontFilename(font_manifest[j]))
    => C13_OneDistinctPathPerFont

(***************************************************************************)
(* Claims about the imports, checked under SpecImport.                     *)
(***************************************************************************)
\* a book with the checksum is among the rows
HoldsChecksum(rows, digest) == \E i \in 1..Len(rows) : rows[i].checksum = Some(digest)

\* add_book_from_metadata has just returned to caller p
JustReturned(p) == import[p].metadata # None /\ import[p].returned # None

\* C14: add_book_from_metadata (and so add_book_from_file and import_book)
\* returns an error and adds no book, author or book-author row when a
\* book with the same checksum is already stored, and returns Ok only when
\* no book with the checksum was stored before the call.
C14_DuplicateChecksumRejected ==
    \A p \in Callers :
        JustReturned(p) =>
            /\ HoldsChecksum(import[p].before.books, import[p].metadata[1].checksum)
               => (~import[p].returned[1].ok /\ Store = import[p].before)
            /\ import[p].returned[1].ok
               => ~HoldsChecksum(import[p].before.books, import[p].metadata[1].checksum)
            /\ (import[p].op = "import_book" /\ import[p].result.ok)
               => import[p].returned[1].ok

\* import_book returned an error for a file whose bytes are those of a
\* book stored under another path, and the store is as it was
C14_Witness ==
    \E p \in Callers :
        /\ JustReturned(p)
        /\ import[p].op = "import_book" /\ import[p].pc = "done"
        /\ ~import[p].result.ok
        /\ Store = import[p].before
        /\ \E i \in 1..Len(books) :
             /\ books[i].checksum = Some(import[p].metadata[1].checksum)
             /\ books[i].file_path # Some(import[p].metadata[1].file_path)

\* C15: the checksum is a function of the file's bytes only: two calls on
\* files of identical bytes, whatever their paths, and repeated calls on
\* one file, yield the identical checksum, and the checksum of the
\* BookMetadata parse_epub_meta returns is the one computed for the file
\* at its file_path.
C15_ChecksumOfBytesOnly ==
    /\ \A i, j \in 1..Len(parsed) :
         (/\ parsed[i].digest.ok
          /\ parsed[j].digest.ok
          /\ FileAt(parsed[i].path).bytes = FileAt(parsed[j].path).bytes)
         => parsed[i].digest.value = parsed[j].digest.value
    /\ \A i \in 1..Len(parsed) :
         parsed[i].result.ok =>
             /\ parsed[i].result.value.file_path = parsed[i].path
             /\ parsed[i].digest.ok
             /\ parsed[i].result.value.checksum = parsed[i].digest.value

\* two files of the same bytes under different paths, and one file twice,
\* have been parsed
C15_Witness ==
    /\ \E i, j \in 1..Len(parsed) :
         /\ parsed[i].path # parsed[j].path
         /\ FileAt(parsed[i].path).bytes = FileAt(parsed[j].path).bytes
         /\ parsed[i].result.ok /\ parsed[j].result.ok
    /\ \E i, j \in 1..Len(parsed) :
         i # j /\ parsed[i].path = parsed[j].path /\ parsed[i].result.ok

\* every file the scan found was imported
EveryFileImported(c) ==
    /\ c.walked
    /\ Len(c.handled) = Len(c.found)
    /\ \A k \in 1..Len(c.handled) : c.handled[k]

\* the scan of caller c, once over, told its caller what happened
ScanReported(c) ==
    (c.op = "scan_books_directory" /\ c.pc \in {"done", "panicked"}) =>
        /\ c.result.returned
        /\ c.result.ok <=> EveryFileImported(c)
        /\ c.walked => Len(c.handled) = Len(c.found)

\* C19: scan_books_directory returns Ok(()) only if every EPUB file found
\* was imported; when the scan or the import of a file fails it returns an
\* error string, neither Ok nor an abnormal end, and the files after the
\* failing one are still handled.
C19_ScanReportsFailures == \A p \in Callers : ScanReported(import[p])

\* A scan all of whose files are imported returns Ok(()) (C19 fails when
\* the walk or an import fails only).
ScanSucceedsWhenEveryImportDoes ==
    \A p \in Callers :
        (/\ import[p].walked
         /\ \A k \in 1..Len(import[p].handled) : import[p].handled[k])
        => ScanReported(import[p])

(***************************************************************************)
(* Claims about concurrent calls, checked under SpecConcurrent.            *)
(***************************************************************************)
\* the fragments of a spine, in order
RECURSIVE SpineFragments(_, _)
SpineFragments(sp, m) ==
    IF sp = <<>> THEN <<>>
    ELSE Fragment(by_id(m, Head(sp)), m) \o SpineFragments(Tail(sp), m)

\* what get_epub_content returns when it runs alone
ContentAlone(opened, m, sp) ==
    IF ~opened THEN Err("open") ELSE Ok(SpineFragments(sp, m))

\* what parse_epub_meta returns when it runs alone
MetaAlone(file, pkg, path) ==
    IF ~file.readable THEN Err("io")
    ELSE IF ~pkg.openable THEN Err("open")
    ELSE Ok(BookMetadata(pkg, path, Sha256Hex(file.bytes)))

\* what the call returns when it runs alone
Alone(c) ==
    IF c.op = "get_epub_content"
    THEN ContentAlone(ContainerAt(c.path).package.openable,
                      ContainerAt(c.path).manifest, ContainerAt(c.path).spine)
    ELSE IF c.op = "parse_epub_meta"
    THEN MetaAlone(ContainerAt(c.path), ContainerAt(c.path).package, c.path)
    ELSE CoverImageStreamed("some", ContainerAt(c.path).package)

\* A call of get_epub_content that runs alone returns ContentAlone (under Spec).
ContentAloneIsReturned ==
    cpc = "done" => result = ContentAlone(openable, manifest, spine)

\* A call of parse_epub_meta or get_cover_image_streamed that runs alone
\* returns MetaAlone, CoverImageStreamed (under SpecMeta).
MetaAloneIsReturned ==
    /\ (mop = "parse_epub_meta" /\ mpc = "done")
       => meta_result = MetaAlone(file_data, package, EpubPath)
    /\ (mop = "get_cover_image_streamed" /\ mpc = "done")
       => meta_result = CoverImageStreamed(book_lookup, package)

\* C16: concurrent calls share no mutable state: under every interleaving
\* of the steps of concurrent calls of get_epub_content, parse_epub_meta
\* and cover retrieval, on one file or on different files, each call
\* returns exactly what it returns when it runs alone.
C16_CallsAreIsolated ==
    \A p \in Callers :
        calls[p].pc = "done" => calls[p].result = Alone(calls[p])

\* two calls of get_epub_content on different files, whose steps
\* interleaved, have returned
C16_Witness ==
    /\ \A p \in Callers :
         /\ calls[p].op = "get_epub_content"
         /\ calls[p].pc = "done"
         /\ calls[p].overlapped
         /\ calls[p].result.ok
         /\ calls[p].result.value # <<>>
    /\ calls["c1"].path # calls["c2"].path

(***************************************************************************)
(* Claims about the spine walk of get_epub_content, checked under Spec.    *)
(***************************************************************************)
\* the spine entry has no manifest resource, or one that is no markup
Skipped(idref) ==
    ~by_id(manifest, idref).found \/ by_id(manifest, idref).kind # XHTML

\* the spine without the entries the walk skips
RECURSIVE WithoutSkipped(_)
WithoutSkipped(sp) ==
    IF sp = <<>> THEN <<>>
    ELSE (IF Skipped(Head(sp)) THEN <<>> ELSE <<Head(sp)>>)
         \o WithoutSkipped(Tail(sp))

\* C21: a spine entry whose id has no manifest resource, or whose resource
\* is not declared application/xhtml+xml, is skipped without error: the
\* buffer, during the walk and when it is returned, is what the markup
\* entries alone contribute, in their order, and no step of the walk has
\* handled a skipped entry as a document.
C21_SkippedEntriesLeaveOutputAlone ==
    /\ cpc = "spine"
       => combined_html
            = SpineFragments(WithoutSkipped(SubSeq(spine, 1, spine_pos - 1)), manifest)
    /\ \A k \in 1..Len(processed) : ~Skipped(spine[processed[k].pos])
    /\ (cpc = "done" /\ openable)
       => result = Ok(SpineFragments(WithoutSkipped(spine), manifest))

\* a walk has returned the fragments of two documents with a skipped entry
\* between them
C21_Witness ==
    /\ cpc = "done"
    /\ result.ok
    /\ Len(spine) = 3
    /\ Skipped(spine[2])
    /\ Len(processed) = 2
    /\ processed[1].pos = 1
    /\ processed[2].pos = 3
    /\ processed[1].fragment # <<>>
    /\ processed[2].fragment # <<>>
    /\ processed[1].fragment # processed[2].fragment
    /\ result.value = processed[1].fragment \o processed[2].fragment

(***************************************************************************)
(* Claims about concurrent imports, checked under SpecImports.             *)
(***************************************************************************)
\* no two book rows hold the same checksum
OneBookPerChecksum(rows) ==
    \A i, j \in 1..Len(rows) :
        (i # j /\ rows[i].checksum # None) => rows[i].checksum # rows[j].checksum

\* add_book_from_metadata returned Ok to caller p
ReturnedOk(p) == JustReturned(p) /\ import[p].returned[1].ok

\* C22: under any interleaving of concurrent add_book_from_metadata /
\* import_book calls carrying the same checksum, the store never holds
\* more than one book with that checksum, and at most one of the calls
\* returns Ok.
C22_ConcurrentDuplicatesRejected ==
    /\ OneBookPerChecksum(books)
    /\ \A p, q \in Callers :
         (p # q /\ ReturnedOk(p) /\ ReturnedOk(q))
         => import[p].metadata[1].checksum # import[q].metadata[1].checksum

\* Commands that run one after another never store two books with one
\* checksum (under SpecImport).
OneBookPerChecksumInSequence == OneBookPerChecksum(books)

(***************************************************************************)
(* Claims about register, checked under SpecRegister.                      *)
(***************************************************************************)
\* a user with the username is among the rows
HoldsUsername(rows, username) == \E i \in 1..Len(rows) : rows[i].username = username

\* no two user rows hold the same username
OneUserPerUsername(rows) ==
    \A i, j \in 1..Len(rows) : i # j => rows[i].username # rows[j].username

\* register returned Ok(true) to caller p
Registered(p) == register[p].pc = "done" /\ register[p].result = Ok(TRUE)

\* C23: after any sequence and any interleaving of register calls the
\* user store holds at most one user per username: a call for a stored
\* username returns an error, and of several concurrent calls for one new
\* username at most one returns Ok(true).
C23_OneUserPerUsername ==
    /\ OneUserPerUsername(users)
    /\ \A p \in Callers :
         (register[p].pc = "done" /\ HoldsUsername(register[p].before, register[p].username))
         => (register[p].result.returned /\ ~register[p].result.ok)
    /\ \A p, q \in Callers :
         (/\ p # q
          /\ Registered(p) /\ Registered(q)
          /\ register[p].username = register[q].username)
         => \/ HoldsUsername(register[p].before, register[p].username)
            \/ HoldsUsername(register[q].before, register[q].username)

\* A call for a username that was stored when the call started returns an
\* error, "Username already exists" unless a step before the test failed,
\* and Ok(true) is returned only with the caller's row in the table.
RegisterRejectsStoredUsername ==
    \A p \in Callers :
        /\ (register[p].pc = "done" /\ HoldsUsername(register[p].before, register[p].username))
           => register[p].result \in {Err("Username already exists"), Err("db"),
                                      Err("password hash")}
        /\ Registered(p) => HoldsUsername(users, register[p].username)

(***************************************************************************)
(* Claims about what add_book_from_metadata leaves in the store, checked   *)
(* under SpecImport.                                                       *)
(***************************************************************************)
\* the ids of the book rows with the checksum
BookIdsOf(digest) ==
    {books[i].book_id : i \in {k \in 1..Len(books) : books[k].checksum = Some(digest)}}

\* a book-author row links a book with the checksum
LinkedChecksum(digest) ==
    \E k \in 1..Len(book_authors) : book_authors[k].book_id \in BookIdsOf(digest)

\* C24: add_book_from_metadata is all-or-nothing: when it returns an error
\* for a checksum that was not stored before the call, also an error of a
\* step after the book row was inserted, the store holds no book and no
\* book-author link for the checksum, so that a retry is not a duplicate.
C24_FailedImportStoresNothing ==
    \A p \in Callers :
        (/\ JustReturned(p)
         /\ ~import[p].returned[1].ok
         /\ ~HoldsChecksum(import[p].before.books, import[p].metadata[1].checksum))
        => /\ ~HoldsChecksum(books, import[p].metadata[1].checksum)
           /\ ~LinkedChecksum(import[p].metadata[1].checksum)

\* A call that returns an error without having inserted the book row
\* leaves the whole store as it was.
NothingStoredUnlessBookInserted ==
    \A p \in Callers :
        (/\ JustReturned(p)
         /\ ~import[p].returned[1].ok
         /\ books = import[p].before.books)
        => Store = import[p].before

\* no two author rows hold the same name
OneAuthorPerName(rows) ==
    \A i, j \in 1..Len(rows) : i # j => rows[i].name # rows[j].name

\* the ids of the authors linked to the book
AuthorIdsOf(book_id) ==
    {book_authors[k].author_id :
        k \in {l \in 1..Len(book_authors) : book_authors[l].book_id = book_id}}

\* the author rows named `name` that are linked to the book
LinkedAuthorsNamed(book_id, name) ==
    {i \in 1..Len(authors) :
        authors[i].name = name /\ authors[i].author_id \in AuthorIdsOf(book_id)}

\* the book is linked to exactly one author row for each of the names, and
\* to no other author
LinkedOncePerName(book_id, names) ==
    /\ \A k \in 1..Len(names) : Cardinality(LinkedAuthorsNamed(book_id, names[k])) = 1
    /\ \A a \in AuthorIdsOf(book_id) :
         \E i \in 1..Len(authors), k \in 1..Len(names) :
             authors[i].author_id = a /\ authors[i].name = names[k]

\* `old` is the beginning of `rows`
IsPrefix(old, rows) == Len(old) <= Len(rows) /\ SubSeq(rows, 1, Len(old)) = old

=============================================================================
